---- MODULE Spec2Model ----
(***************************************************************************)
(* Model of the AI service of the bot (app/services/ai_service.py): the    *)
(* context window manager, the prompt assembler and the rate-gated request *)
(* orchestrator, with the asyncio event loop that runs concurrent calls of *)
(* generate_response on the process-wide AIService instance.               *)
(*                                                                         *)
(* Texts.  History turns and user messages are strings.  The system        *)
(* prompt (ALICE_BASE_PROMPT plus the personalisation section) is only     *)
(* ever measured, so a request carries the length of the user preferences  *)
(* (pref_len, 0 = no preferences) and the model computes the lengths the   *)
(* code computes.  The tokenizer is None (dedicated endpoints never load   *)
(* one), so count_tokens is the estimate len(text) // 4; SpecTokens alone  *)
(* runs count_tokens with a tokenizer loaded.                              *)
(*                                                                         *)
(* Time.  The loop clock `now` counts ticks; one tick is                   *)
(* 1 / (hf_max_rps * TicksPerInterval) seconds, so the pacer's             *)
(* min_interval = 1.0 / hf_max_rps is exactly TicksPerInterval ticks.      *)
(*                                                                         *)
(* Caller side.  The handler of inbound messages (app/bot/handlers.py) and *)
(* the Redis rate limiter it consults (app/services/rate_limiter.py) are   *)
(* modelled with the same tasks; Redis has its own clock, in seconds.      *)
(*                                                                         *)
(* Ledger.  The loan balances in user_profile and the payments, with the   *)
(* operations that write them (app/services/user_service.py,               *)
(* scheduler_service.py, payment_service.py, app/webhook/handler.py): each *)
(* runs in a session of its own, between a select and a commit.            *)
(***************************************************************************)
EXTENDS Integers, Sequences, FiniteSets, TLC

\* ------------------------------------------------------------------ bounds
MaxHistory == 3
NumCallers == 2
MaxTime == 2
TicksPerInterval == 1
MaxInits == 2

\* ---------------------------------------------------------------- settings
hf_max_tokens == 512
max_context_tokens == 8000
OpenAIContextTokens == 8000
SafetyBuffer == 100
AliceBasePromptLen == 2104
PreferencesSectionLen == 570
MaxAttempts == 3
hf_max_retries == 3
rate_limit_per_user_sec == 3
free_daily_loans == 10
TokenPackage == 100

\* ------------------------------------------------------------------- texts
Roles == {"user", "assistant", "system"}
Contents == {"hi", "abcdefgh", "abcdefghijklmnop"}
Turns == [role : Roles, content : Contents]
Histories == UNION {[1..n -> Turns] : n \in 0..MaxHistory}
UserMessages == {"hey", "tell me more"}
\* lengths of user_preferences: none; four that leave the structured-turns
\* variant 0..6 tokens for history; four that leave the single-string
\* variant 0..24; one under which the structured system turn and the new
\* turn alone count more than the window while the single-string prompt does
\* not; one under which both do.
PrefLens == {0, 26854, 26862, 26870, 26878, 27235, 27267, 27299, 27331, 29400, 29800}

\* a selection left in the order of the walk, newest first
NoReverse(s) == s

\* list.reverse() / reversed(list)
Reverse(s) == [i \in 1..Len(s) |-> s[Len(s) + 1 - i]]

\* sum(s), by halves
RECURSIVE SumSeq(_)
SumSeq(s) ==
    IF Len(s) = 0 THEN 0
    ELSE IF Len(s) = 1 THEN s[1]
    ELSE LET mid == Len(s) \div 2
         IN  SumSeq(SubSeq(s, 1, mid)) + SumSeq(SubSeq(s, mid + 1, Len(s)))

\* the chat roles a history turn must have to be sent (lines 208, 317)
IsChatRole(role) == role \in {"user", "assistant"}

IsChatTurn(msg) == IsChatRole(msg.role)

\* [msg for msg in chat_history if msg["role"] in ["user", "assistant"]]
FilterChat(h) == SelectSeq(h, IsChatTurn)

\* ------------------------------------------------------- Tokenizer/Estimator
\* an estimate rounded up
EstimateRoundedUp(n) == (n + 3) \div 4

\* count_tokens with self.tokenizer = None, on a text of n characters
EstimateTokens(n) == n \div 4
count_tokens(text) == EstimateTokens(Len(text))

\* CHAT_TEMPLATES[role].format(content=content)
ChatTemplate(role, content) ==
    IF role = "user" THEN "<|im_start|>user\n" \o content \o "<|im_end|>"
    ELSE IF role = "assistant" THEN "<|im_start|>assistant\n" \o content \o "<|im_end|>"
    ELSE "<|im_start|>system\n" \o content \o "<|im_end|>"
assistant_prefix == "<|im_start|>assistant\n"

\* len(build_personalized_system_prompt(user_preferences))
PersonalizedSystemLen(pref_len) ==
    IF pref_len > 0 THEN AliceBasePromptLen + PreferencesSectionLen + pref_len
    ELSE AliceBasePromptLen
\* len(CHAT_TEMPLATES["system"].format(content=system_content)) in build_chat_prompt
SystemPartLen(pref_len) ==
    Len("<|im_start|>system\n")
    + (IF pref_len > 0
       THEN AliceBasePromptLen + Len("\n\nUser preferences to keep in mind: ") + pref_len
       ELSE AliceBasePromptLen)
    + Len("<|im_end|>")

\* ---------------------------------------------------- Context Window Manager
reserved_tokens == hf_max_tokens + SafetyBuffer

\* a test that forgets the tokens already used
FitsIgnoringUsed(used_tokens, msg_tokens, available_tokens) ==
    msg_tokens <= available_tokens

\* a test made before the turn is added
FitsBeforeAdding(used_tokens, msg_tokens, available_tokens) ==
    used_tokens <= available_tokens

\* the test of lines 214 and 349
FitsBudget(used_tokens, msg_tokens, available_tokens) ==
    used_tokens + msg_tokens <= available_tokens

\* a walk that skips a turn that overflows and goes on to the older ones
RECURSIVE OptimizeWalkSkip(_, _, _, _, _)
OptimizeWalkSkip(chat_history, i, available_tokens, used_tokens, optimized_history) ==
    IF i = 0 THEN optimized_history
    ELSE LET msg == chat_history[i]
             msg_tokens == count_tokens(msg.content)
         IN  IF IsChatRole(msg.role) /\ used_tokens + msg_tokens <= available_tokens
             THEN OptimizeWalkSkip(chat_history, i - 1, available_tokens,
                                   used_tokens + msg_tokens,
                                   Append(optimized_history, msg))
             ELSE OptimizeWalkSkip(chat_history, i - 1, available_tokens,
                                   used_tokens, optimized_history)

\* the loop of lines 207-220 at the i-th turn of chat_history, newest first
RECURSIVE OptimizeWalk(_, _, _, _, _)
OptimizeWalk(chat_history, i, available_tokens, used_tokens, optimized_history) ==
    IF i = 0 THEN optimized_history
    ELSE LET msg == chat_history[i] IN
         IF ~IsChatRole(msg.role)
         THEN OptimizeWalk(chat_history, i - 1, available_tokens, used_tokens,
                           optimized_history)
         ELSE LET msg_tokens == count_tokens(msg.content) IN
              IF FitsBudget(used_tokens, msg_tokens, available_tokens)
              THEN OptimizeWalk(chat_history, i - 1, available_tokens,
                                used_tokens + msg_tokens,
                                Append(optimized_history, msg))
              ELSE optimized_history

OptimizeAvailable(system_tokens, current_message_tokens, max_context) ==
    max_context - system_tokens - current_message_tokens - reserved_tokens

\* a manager that walks the history even when nothing is available
OptimizeWithoutGuard(chat_history, system_tokens, current_message_tokens, max_context) ==
    Reverse(OptimizeWalk(chat_history, Len(chat_history),
                         OptimizeAvailable(system_tokens, current_message_tokens,
                                           max_context),
                         0, <<>>))

_optimize_chat_history_for_context(chat_history, system_tokens, current_message_tokens, max_context) ==
    LET available_tokens ==
            OptimizeAvailable(system_tokens, current_message_tokens, max_context)
    IN  IF chat_history = <<>> THEN <<>>
        ELSE IF available_tokens <= 0 THEN <<>>
        ELSE Reverse(OptimizeWalk(chat_history, Len(chat_history),
                                  available_tokens, 0, <<>>))

\* ------------------------------------------------------------ Prompt Assembler
\* _build_openai_messages: the turns between the system turn and the new turn
OpenAIHistory(user_message, chat_history, pref_len) ==
    FilterChat(_optimize_chat_history_for_context(
        chat_history,
        EstimateTokens(PersonalizedSystemLen(pref_len)),
        count_tokens(user_message),
        OpenAIContextTokens))

\* the system turn of the messages list (line 260): its content is the text of
\* build_personalized_system_prompt for preferences of pref_len characters,
\* kept by its length
SystemTurn(pref_len) ==
    [role |-> "system", content |-> [system_len |-> PersonalizedSystemLen(pref_len)]]

\* a messages list that ends with an assistant turn to be completed
MessagesWithAssistantTurn(user_message, chat_history, pref_len) ==
    <<SystemTurn(pref_len)>>
    \o OpenAIHistory(user_message, chat_history, pref_len)
    \o <<[role |-> "user", content |-> user_message],
         [role |-> "assistant", content |-> ""]>>

\* _build_openai_messages, lines 245-279
_build_openai_messages(user_message, chat_history, pref_len) ==
    <<SystemTurn(pref_len)>>
    \o OpenAIHistory(user_message, chat_history, pref_len)
    \o <<[role |-> "user", content |-> user_message]>>

\* build_chat_prompt, lines 315-321: the formatted history, newest first
HistoryParts(chat_history) ==
    LET chat == Reverse(FilterChat(chat_history))
    IN  [i \in 1..Len(chat) |-> ChatTemplate(chat[i].role, chat[i].content)]

\* build_chat_prompt, lines 334-335
PromptBaseTokens(user_message, pref_len) ==
    EstimateTokens(SystemPartLen(pref_len)
                   + Len(ChatTemplate("user", user_message))
                   + Len(assistant_prefix))
PromptAvailable(user_message, pref_len) ==
    max_context_tokens - PromptBaseTokens(user_message, pref_len)
    - hf_max_tokens - SafetyBuffer

\* build_chat_prompt, lines 344-355: the loop takes the parts, newest first,
\* and breaks at the first one that does not fit. The running total when the
\* loop reaches part i, every part before it taken, is the sum of their
\* token counts.
PromptWalk(history_parts, available_tokens) ==
    LET n == Len(history_parts)
        part_tokens == [i \in 1..n |-> count_tokens(history_parts[i])]
        breaks == {i \in 1..n :
                     ~FitsBudget(SumSeq(SubSeq(part_tokens, 1, i - 1)),
                                 part_tokens[i], available_tokens)}
        first_break == IF breaks = {} THEN n + 1
                       ELSE CHOOSE i \in breaks : \A j \in breaks : i <= j
    IN  SubSeq(history_parts, 1, first_break - 1)

\* build_chat_prompt, lines 344-359: used_history in chronological order
PromptUsedHistory(user_message, chat_history, pref_len) ==
    Reverse(PromptWalk(HistoryParts(chat_history),
                       PromptAvailable(user_message, pref_len)))

\* len("\n".join(parts))
JoinedLen(parts) ==
    IF parts = <<>> THEN 0
    ELSE SumSeq([i \in 1..Len(parts) |-> Len(parts[i])]) + Len(parts) - 1

\* build_chat_prompt, lines 363-379: count_tokens(final_prompt)
PromptTotalTokens(user_message, used_history, pref_len) ==
    LET current_len == Len(ChatTemplate("user", user_message)) IN
    IF used_history # <<>>
    THEN EstimateTokens(SystemPartLen(pref_len) + 2 + JoinedLen(used_history) + 1
                        + current_len + 1 + Len(assistant_prefix))
    ELSE EstimateTokens(SystemPartLen(pref_len) + 2 + current_len + 1
                        + Len(assistant_prefix))

\* "\n".join(parts), by halves
RECURSIVE Join(_)
Join(parts) ==
    IF Len(parts) = 0 THEN ""
    ELSE IF Len(parts) = 1 THEN parts[1]
    ELSE LET mid == Len(parts) \div 2
         IN  Join(SubSeq(parts, 1, mid)) \o "\n"
             \o Join(SubSeq(parts, mid + 1, Len(parts)))

\* a final prompt whose assistant segment is closed
FinalPromptClosed(user_message, used_history, pref_len) ==
    [system_part_len |-> SystemPartLen(pref_len),
     after_system |->
        "\n\n" \o (IF used_history # <<>> THEN Join(used_history) \o "\n" ELSE "")
        \o ChatTemplate("user", user_message) \o "\n"
        \o ChatTemplate("assistant", "")]

\* build_chat_prompt, lines 357-376: final_prompt, the system part kept by
\* its length and what follows it as the text it is
FinalPrompt(user_message, used_history, pref_len) ==
    LET current_user_msg == ChatTemplate("user", user_message) IN
    [system_part_len |-> SystemPartLen(pref_len),
     after_system |->
        IF used_history # <<>>
        THEN "\n\n" \o Join(used_history) \o "\n" \o current_user_msg \o "\n"
             \o assistant_prefix
        ELSE "\n\n" \o current_user_msg \o "\n" \o assistant_prefix]

build_chat_prompt(user_message, chat_history, pref_len) ==
    LET used_history == PromptUsedHistory(user_message, chat_history, pref_len) IN
    [used_history |-> used_history,
     total_tokens |-> PromptTotalTokens(user_message, used_history, pref_len),
     final_prompt |-> FinalPrompt(user_message, used_history, pref_len)]

\* ------------------------------------------------- Response Normalizer
Whitespace == {" ", "\n", "\t", "\r"}

RECURSIVE LStrip(_)
LStrip(s) == IF Len(s) > 0 /\ Head(s) \in Whitespace THEN LStrip(Tail(s)) ELSE s
RECURSIVE RStrip(_)
RStrip(s) ==
    IF Len(s) > 0 /\ SubSeq(s, Len(s), Len(s)) \in Whitespace
    THEN RStrip(SubSeq(s, 1, Len(s) - 1)) ELSE s
\* str.strip()
Strip(s) == RStrip(LStrip(s))

\* str.startswith(prefix)
StartsWith(s, prefix) ==
    Len(s) >= Len(prefix) /\ SubSeq(s, 1, Len(prefix)) = prefix

\* s[n:]
DropFirst(s, n) == SubSeq(s, n + 1, Len(s))

\* the positions of s at which sub starts
Occurrences(s, sub) ==
    {i \in 1..(Len(s) - Len(sub) + 1) : SubSeq(s, i, i + Len(sub) - 1) = sub}

\* s.split(sep)[0]
BeforeFirst(s, sep) ==
    LET found == Occurrences(s, sep)
    IN  IF found = {} THEN s
        ELSE SubSeq(s, 1, (CHOOSE i \in found : \A j \in found : i <= j) - 1)

\* str.replace(token, ""): the occurrences found from left to right, none
\* overlapping the one before it, in one pass
RECURSIVE Remove(_, _)
Remove(s, token) ==
    LET head == BeforeFirst(s, token)
    IN  IF head = s THEN s
        ELSE head \o Remove(DropFirst(s, Len(head) + Len(token)), token)

unwanted_prefixes == <<"Human:", "Assistant:", "Bot:", "AI:", "User:">>

\* the loop of lines 689-692 from the i-th prefix on
RECURSIVE StripPrefixes(_, _)
StripPrefixes(cleaned, i) ==
    IF i > Len(unwanted_prefixes) THEN cleaned
    ELSE IF StartsWith(cleaned, unwanted_prefixes[i])
         THEN StripPrefixes(Strip(DropFirst(cleaned, Len(unwanted_prefixes[i]))), i + 1)
         ELSE StripPrefixes(cleaned, i + 1)

MaxResponseChars == 2000
\* no placeholder at all
BlankPlaceholder == ""

\* the placeholder of line 699 (its emoji left out)
EmptyPlaceholder == "Hey there! What's on your mind?"

\* lines 678-699: the text before the length check
Untruncated(raw) ==
    LET c1 == Strip(Remove(Remove(raw, "<|im_start|>"), "<|im_end|>"))
        c2 == IF StartsWith(c1, "assistant\n") THEN Strip(DropFirst(c1, 10)) ELSE c1
        c3 == IF BeforeFirst(c2, "<|im_start|>user") # c2
              THEN Strip(BeforeFirst(c2, "<|im_start|>user")) ELSE c2
        c4 == Strip(StripPrefixes(c3, 1))
    IN  IF c4 = "" THEN EmptyPlaceholder ELSE c4

\* a cut at the limit itself, the dots added after it
TruncateAtLimit(text) ==
    IF Len(text) > MaxResponseChars
    THEN SubSeq(text, 1, MaxResponseChars) \o "..."
    ELSE text

\* lines 702-703
Truncate(text) ==
    IF Len(text) > MaxResponseChars
    THEN SubSeq(text, 1, MaxResponseChars - 3) \o "..."
    ELSE text

_clean_response(raw) == Truncate(Untruncated(raw))

\* ------------------------------------------------------ exceptions, replies
\* what one dispatch (client.post) ends with: a response with a status and
\* the generated text of its body, or an httpx exception
Response(status, text) == [status |-> status, error |-> "", text |-> text]
NetworkFailure(error) == [status |-> 0, error |-> error, text |-> ""]
NetworkErrors == {"ConnectError", "ReadTimeout"}
\* a 200 response whose body response.json() cannot decode
Undecodable == [status |-> 200, error |-> "JSONDecodeError", text |-> ""]
Statuses == {200, 400, 401, 403, 404, 429, 500, 502, 503}
Outcomes ==
    {Response(st, IF st = 200 THEN " Hello there!" ELSE "") : st \in Statuses}
    \cup {Response(200, ""), Undecodable}
    \cup {NetworkFailure(e) : e \in NetworkErrors}

Exc(class, status) == [class |-> class, status |-> status]
NoException == Exc("", 0)

\* the classes an exception class is an instance of (httpx, ai_service.py 26-43)
Superclasses(class) ==
    {class, "Exception"} \cup
    CASE class = "ReadTimeout" -> {"TimeoutException", "TransportError", "RequestError", "HTTPError"}
      [] class = "ConnectError" -> {"NetworkError", "TransportError", "RequestError", "HTTPError"}
      [] class = "HTTPStatusError" -> {"HTTPError"}
      [] class \in {"TokenLimitExceededError", "ModelUnavailableError",
                    "RateLimitExceededError"} -> {"AIServiceError"}
      [] OTHER -> {}
IsInstance(exc, class) == class \in Superclasses(exc.class)

\* _make_api_request, lines 514-568: what the body of the try raises
TryBody(outcome) ==
    IF outcome.error # "" THEN Exc(outcome.error, 0)
    ELSE IF outcome.status = 200 THEN NoException
    ELSE IF outcome.status = 429 THEN Exc("RateLimitExceededError", 0)
    ELSE IF outcome.status = 503 THEN Exc("ModelUnavailableError", 0)
    ELSE IF outcome.status \in {401, 403} THEN Exc("AIServiceError", 0)
    ELSE IF outcome.status = 400 THEN Exc("AIServiceError", 0)
    ELSE IF outcome.status = 404 THEN Exc("AIServiceError", 0)
    ELSE Exc("HTTPStatusError", outcome.status)

\* except clauses whose HTTPStatusError handler takes every 5xx for a model
\* that is loading
ExceptClausesAny5xx(exc) ==
    IF IsInstance(exc, "TimeoutException") THEN Exc("ModelUnavailableError", 0)
    ELSE IF IsInstance(exc, "RequestError") THEN Exc("AIServiceError", 0)
    ELSE IF IsInstance(exc, "HTTPStatusError")
         THEN IF exc.status = 429 THEN Exc("RateLimitExceededError", 0)
              ELSE IF exc.status >= 500 THEN Exc("ModelUnavailableError", 0)
              ELSE Exc("AIServiceError", 0)
    ELSE Exc("AIServiceError", 0)

\* _make_api_request, lines 570-586: what the except clauses raise instead
ExceptClauses(exc) ==
    IF IsInstance(exc, "TimeoutException") THEN Exc("ModelUnavailableError", 0)
    ELSE IF IsInstance(exc, "RequestError") THEN Exc("AIServiceError", 0)
    ELSE IF IsInstance(exc, "HTTPStatusError")
         THEN IF exc.status = 429 THEN Exc("RateLimitExceededError", 0)
              ELSE IF exc.status = 503 THEN Exc("ModelUnavailableError", 0)
              ELSE Exc("AIServiceError", 0)
    ELSE Exc("AIServiceError", 0)

\* a retry condition that takes every exception
RetryOnAnyException(exc) == TRUE

\* the retry decorator, line 390
RetryIfExceptionType(exc) ==
    IsInstance(exc, "RequestError") \/ IsInstance(exc, "TimeoutException")

\* the retry decorator, line 389: wait_exponential(multiplier=1, min=1, max=10)
\* before the attempt after attempt_number, in seconds
RECURSIVE Pow2(_)
Pow2(n) == IF n = 0 THEN 1 ELSE 2 * Pow2(n - 1)
\* a wait that doubles from the first retry on: 2 s, 4 s, 8 s, ...
WaitExponentialFromTwo(attempt_number) ==
    LET exp == Pow2(attempt_number)
    IN  IF exp < 1 THEN 1 ELSE IF exp > 10 THEN 10 ELSE exp
WaitExponential(attempt_number) ==
    LET exp == Pow2(attempt_number - 1)
    IN  IF exp < 1 THEN 1 ELSE IF exp > 10 THEN 10 ELSE exp

\* what initialize() may raise inside its try (the tokenizer load of lines
\* 77-99 or the client constructor of lines 107-114), or nothing
InitOutcomes == {NoException, Exc("OSError", 0)}
\* an initialize() that succeeds
InitSucceeds == {NoException}

\* an initialize() that lets the exception through as it is
InitializeReraises(exc) == exc

\* initialize(), lines 100-103 and 125-130
InitializeExcept(exc) == Exc("AIServiceError", 0)

\* generate_response, lines 657-666
GenerateResponseExcept(exc) ==
    IF exc.class \in {"RateLimitExceededError", "ModelUnavailableError",
                      "TokenLimitExceededError"}
    THEN exc
    ELSE Exc("AIServiceError", 0)

\* a generate_response without the empty check: whatever text comes goes to
\* _clean_response
ExtractWithoutCheck(text) ==
    [kind |-> "success", text |-> _clean_response(Strip(text))]

\* an empty check on the text as it came, not stripped
ExtractUnstripped(text) ==
    IF text = "" THEN [kind |-> "AIServiceError", text |-> ""]
    ELSE [kind |-> "success", text |-> _clean_response(Strip(text))]

\* generate_response, lines 635-655, on the text of a 200 response
ExtractAndClean(text) ==
    LET generated_text == Strip(text)
    IN  IF generated_text = "" THEN [kind |-> "AIServiceError", text |-> ""]
        ELSE [kind |-> "success", text |-> _clean_response(generated_text)]

\* ------------------------------------------------------------------- state
VARIABLES
    hf_max_rps,            \* settings.hf_max_rps
    chat_completions,      \* "v1/chat/completions" in request_url (lines 433-459)
    client,                \* self.client: "None" or "AsyncClient"
    _initialized,          \* self._initialized
    semaphores,            \* the asyncio.Semaphore objects created so far: their free slots
    _request_semaphore,    \* self._request_semaphore: an index into semaphores
    _last_request_time,    \* self._last_request_time
    now,                   \* asyncio.get_event_loop().time()
    close_pc,              \* where the task running close() is
    pc,                    \* where each caller's generate_response is
    request,               \* its arguments
    endpoint,              \* what the endpoint answers to its successive dispatches
    attempt_number,        \* the retry decorator's attempt number
    dispatches,            \* the client.post calls made for it
    slot,                  \* the semaphore it waits for or holds a slot of (0: none)
    wake_at,               \* the loop time its asyncio.sleep ends
    prompt,                \* what build_chat_prompt returned to it
    payload,               \* the history in the payload it sent
    result,                \* what generate_response returned or raised
    send_times,             \* the last two values recorded at line 424 for a dispatch
    response,              \* the text _clean_response is called with
    cleaned,               \* what its successive applications returned
    tokenizer,             \* self.tokenizer: "None" or "loaded"
    counted_text,          \* the text count_tokens is called with
    encoded,               \* what tokenizer.encode did on that text
    tokens,                \* what count_tokens returned or raised
    redis,                 \* rate_limiter.redis: "None" or "Redis"
    redis_time,            \* the Redis server's clock, in seconds
    expires,               \* when the key rate_limit:{chat_id} expires (0: no key)
    limiter_pc,            \* where each task's call of the rate limiter is
    chat_id,               \* the chat it was called for
    answer,                \* what the call returned or raised
    admitted,              \* the last two times is_rate_limited set the key of a chat and returned False
    handler_pc,            \* where the handle_message of each inbound message is
    profiles,              \* the user_profile rows
    gates,                 \* the checks of handle_message the message passed, in order
    reply,                 \* what handle_message answered the message with
    db_pc,                 \* where each task's database operation is
    db_op,                 \* the operation, its arguments and what it returned
    session,               \* the user_profile rows loaded in the task's AsyncSession
    payments,              \* the payments rows
    opening,               \* the loan_balance each chat started with
    deductions,            \* how many deduct_loan calls returned True for each chat
    credits                \* how many times each payment was credited to its chat

service == <<hf_max_rps, chat_completions, client, _initialized, semaphores,
             _request_semaphore, _last_request_time>>
calls == <<pc, request, endpoint, attempt_number, dispatches, slot, wake_at,
           prompt, payload, result>>
sanitizer == <<response, cleaned>>
estimator == <<tokenizer, counted_text, encoded, tokens>>
limiter == <<redis, redis_time, expires, limiter_pc, chat_id, answer, admitted>>
handlers == <<handler_pc, profiles, gates, reply>>
ledger == <<db_pc, db_op, session, payments, opening, deductions, credits>>
caller_side == <<limiter, handlers, ledger>>
\* what a task running generate_response leaves alone: what the methods
\* called on their own work on, and the caller's side
standalone == <<sanitizer, estimator, caller_side>>
vars == <<service, now, close_pc, calls, send_times, standalone>>

Callers == 1..NumCallers

NoRequest == [user_message |-> "", chat_history |-> <<>>, pref_len |-> 0]
NoPrompt ==
    [used_history |-> <<>>, total_tokens |-> 0,
     final_prompt |-> [system_part_len |-> 0, after_system |-> ""]]
NoPayload == [format |-> "", history |-> <<>>, messages |-> <<>>]
NoResult == [kind |-> "none", text |-> ""]
Raised(exc) == [kind |-> exc.class, text |-> ""]

Requests == [user_message : UserMessages, chat_history : Histories, pref_len : PrefLens]
\* one short conversation, for the runs that are about the gate
PlainRequests ==
    {[user_message |-> "hey",
      chat_history |-> <<[role |-> "user", content |-> "hi"]>>,
      pref_len |-> 0]}

\* A script is what the endpoint answers to the successive dispatches of one
\* call (its last answer repeated from then on); the empty script is an
\* endpoint that answers each dispatch with any outcome.
MaxScript == 3
RetryOutcomes ==
    {Response(200, " Hello there!"), Response(500, "")}
    \cup {NetworkFailure(e) : e \in NetworkErrors}
\* generated texts of a 200 response: a reply, nothing, whitespace only, a
\* delimiter only
GeneratedTexts == {" Hello there!", "", " \n", "<|im_end|>"}
TextOutcomes == {Response(200, text) : text \in GeneratedTexts}
Scripts ==
    {<<o>> : o \in Outcomes \cup TextOutcomes} \cup UNION {[1..n -> RetryOutcomes] : n \in 2..MaxScript}
Unscripted == {<<>>}
\* the endpoint's possible answers to the n-th dispatch of a call
Replies(script, n) ==
    IF script = <<>> THEN Outcomes
    ELSE IF n <= Len(script) THEN {script[n]} ELSE {script[Len(script)]}

\* min_interval = 1.0 / settings.hf_max_rps (line 417), in ticks
min_interval == TicksPerInterval
TicksPerSecond == hf_max_rps * TicksPerInterval

\* AIService.__init__ (lines 49-54) under the loaded settings
Constructed(rps_choices, variants) ==
    /\ hf_max_rps \in rps_choices
    /\ chat_completions \in variants
    /\ client = "None"
    /\ _initialized = FALSE
    /\ semaphores = <<hf_max_rps>>
    /\ _request_semaphore = 1
    /\ _last_request_time = 0
    /\ now = TicksPerInterval
    /\ close_pc = "idle"
    /\ pc = [c \in Callers |-> "idle"]
    /\ request = [c \in Callers |-> NoRequest]
    /\ endpoint = [c \in Callers |-> <<>>]
    /\ attempt_number = [c \in Callers |-> 0]
    /\ dispatches = [c \in Callers |-> 0]
    /\ slot = [c \in Callers |-> 0]
    /\ wake_at = [c \in Callers |-> 0]
    /\ prompt = [c \in Callers |-> NoPrompt]
    /\ payload = [c \in Callers |-> NoPayload]
    /\ result = [c \in Callers |-> NoResult]
    /\ send_times = <<>>

\* tokenizer.encode(text, add_special_tokens=True) (line 154) raises, or
\* returns a list of n tokens
EncodeRaises == [raised |-> TRUE, n |-> 0]
Encoded(n) == [raised |-> FALSE, n |-> n]
Encodings(text) == {EncodeRaises} \cup {Encoded(n) : n \in 1..(Len(text) + 1)}
NotEncoded == Encoded(0)

\* what a call of count_tokens ends with
Returned(value) == [raised |-> FALSE, value |-> value]
NotCounted == [raised |-> FALSE, value |-> -1]
CountRaised == [raised |-> TRUE, value |-> -1]

\* a count_tokens without the try: a failing encode ends the call
CountTokensPropagates(tok, text, encoding) ==
    IF tok = "None" THEN Returned(EstimateTokens(Len(text)))
    ELSE IF encoding.raised THEN CountRaised
    ELSE Returned(encoding.n)

\* count_tokens, lines 140-158, with self.tokenizer = tok
CountTokens(tok, text, encoding) ==
    IF tok = "None" THEN Returned(EstimateTokens(Len(text)))
    ELSE IF encoding.raised THEN Returned(EstimateTokens(Len(text)))
    ELSE Returned(encoding.n)

\* _clean_response and count_tokens not called on their own; the tokenizer
\* is not loaded (a dedicated endpoint, lines 72-75)
SanitizerIdle == response = "" /\ cleaned = <<>>
EstimatorIdle ==
    /\ tokenizer = "None"
    /\ counted_text = ""
    /\ encoded = NotEncoded
    /\ tokens = NotCounted

\* the chats that write to the bot (update.effective_chat.id)
Users == {101, 102}
\* a user_profile row (age_verified, loan_balance), or no row for the chat
Profile(age_verified, loan_balance) ==
    [exists |-> TRUE, age_verified |-> age_verified, loan_balance |-> loan_balance]
NoProfile == [exists |-> FALSE, age_verified |-> FALSE, loan_balance |-> 0]
\* what a call of is_rate_limited or get_remaining_time ends with, and
\* whether Redis was missing or failed during the call
NoAnswer ==
    [op |-> "none", limited |-> FALSE, remaining |-> 0, raised |-> FALSE,
     redis_failed |-> FALSE]

\* an empty Redis, no call of the rate limiter
NoLimiterCall ==
    /\ redis_time = 0
    /\ expires = [u \in Users |-> 0]
    /\ limiter_pc = [c \in Callers |-> "idle"]
    /\ chat_id = [c \in Callers |-> 0]
    /\ answer = [c \in Callers |-> NoAnswer]
    /\ admitted = [u \in Users |-> <<>>]
\* RateLimiter.__init__ (rate_limiter.py 16-17)
LimiterIdle == redis = "None" /\ NoLimiterCall
\* no inbound message
NoMessage ==
    /\ handler_pc = [c \in Callers |-> "idle"]
    /\ gates = [c \in Callers |-> <<>>]
    /\ reply = [c \in Callers |-> "none"]
HandlersIdle ==
    /\ NoMessage
    /\ profiles = [u \in Users |-> NoProfile]

\* the payments of the database (payments.id), a payments row (status,
\* chat_id, tokens_to_receive), no row
PaymentIds == {1, 2}
Payment(status, chat, tokens_to_receive) ==
    [status |-> status, chat_id |-> chat, tokens_to_receive |-> tokens_to_receive]
NoPayment == Payment("none", 0, 0)
\* a database operation of a task: its name, the amount or the payment it
\* is about, the event reported for the payment, the payment status its
\* session loaded and the one it marked on the loaded object, what it
\* returned, and whether a database call raised under it
NoOp ==
    [name |-> "none", amount |-> 0, payment |-> 0, event |-> "none",
     loaded_status |-> "none", marked |-> "none",
     returned |-> "none", db_failed |-> FALSE]
\* a row of the session's identity map
NotLoaded == [loaded |-> FALSE, loan_balance |-> 0]
Loaded(loan_balance) == [loaded |-> TRUE, loan_balance |-> loan_balance]
EmptySession == [u \in Users |-> NotLoaded]

\* no database operation under way; the user_profile rows as they are
NoDbCall ==
    /\ db_pc = [c \in Callers |-> "idle"]
    /\ db_op = [c \in Callers |-> NoOp]
    /\ session = [c \in Callers |-> EmptySession]
    /\ opening = [u \in Users |-> profiles[u].loan_balance]
    /\ deductions = [u \in Users |-> 0]
    /\ credits = [p \in PaymentIds |-> 0]
LedgerIdle ==
    /\ NoDbCall
    /\ payments = [p \in PaymentIds |-> NoPayment]
CallerSideIdle == LimiterIdle /\ HandlersIdle /\ LedgerIdle

\* the constructed service, no method called on its own, no inbound message
InitWith(rps_choices, variants) ==
    /\ Constructed(rps_choices, variants)
    /\ SanitizerIdle
    /\ EstimatorIdle
    /\ CallerSideIdle

\* ------------------------------------------------------- the running task
\* What the task running caller c's generate_response reads and writes
\* between two suspension points: the service's fields and its own locals.
Snapshot(c) ==
    [client |-> client, _initialized |-> _initialized, semaphores |-> semaphores,
     _request_semaphore |-> _request_semaphore,
     _last_request_time |-> _last_request_time, send_times |-> send_times,
     pc |-> pc[c], attempt_number |-> attempt_number[c],
     dispatches |-> dispatches[c], slot |-> slot[c], wake_at |-> wake_at[c],
     payload |-> payload[c], result |-> result[c]]

\* the task suspends (or returns) leaving st behind
Suspend(c, st) ==
    /\ client' = st.client
    /\ _initialized' = st._initialized
    /\ semaphores' = st.semaphores
    /\ _request_semaphore' = st._request_semaphore
    /\ _last_request_time' = st._last_request_time
    /\ send_times' = st.send_times
    /\ pc' = [pc EXCEPT ![c] = st.pc]
    /\ attempt_number' = [attempt_number EXCEPT ![c] = st.attempt_number]
    /\ dispatches' = [dispatches EXCEPT ![c] = st.dispatches]
    /\ slot' = [slot EXCEPT ![c] = st.slot]
    /\ wake_at' = [wake_at EXCEPT ![c] = st.wake_at]
    /\ payload' = [payload EXCEPT ![c] = st.payload]
    /\ result' = [result EXCEPT ![c] = st.result]
    /\ UNCHANGED <<hf_max_rps, chat_completions, now, close_pc, standalone>>

\* ------------------------------------------------------- initialize, close
\* initialize(), lines 56-123: it never suspends
initialize(st) ==
    IF st._initialized THEN st
    ELSE [st EXCEPT !.client = "AsyncClient",
                    !.semaphores = Append(@, hf_max_rps),
                    !._request_semaphore = Len(st.semaphores) + 1,
                    !._last_request_time = 0,
                    !._initialized = TRUE]

\* await ai_service.initialize() (bot/main.py 98)
Initialize ==
    /\ ~_initialized
    /\ LET st == initialize(Snapshot(1)) IN
        /\ client' = st.client
        /\ semaphores' = st.semaphores
        /\ _request_semaphore' = st._request_semaphore
        /\ _last_request_time' = st._last_request_time
        /\ _initialized' = st._initialized
    /\ UNCHANGED <<hf_max_rps, chat_completions, now, close_pc, calls, send_times,
                   standalone>>

\* close(), lines 134-135: suspends in client.aclose() when there is a client
CloseBegin ==
    /\ close_pc = "idle"
    /\ Len(semaphores) <= MaxInits
    /\ IF client # "None"
       THEN close_pc' = "aclose" /\ UNCHANGED _initialized
       ELSE _initialized' = FALSE /\ UNCHANGED close_pc
    /\ UNCHANGED <<hf_max_rps, chat_completions, client, semaphores,
                   _request_semaphore, _last_request_time, now, calls, send_times, standalone>>

\* close(), lines 136-137
CloseFinish ==
    /\ close_pc = "aclose"
    /\ client' = "None"
    /\ _initialized' = FALSE
    /\ close_pc' = "idle"
    /\ UNCHANGED <<hf_max_rps, chat_completions, semaphores, _request_semaphore,
                   _last_request_time, now, calls, send_times, standalone>>

\* ------------------------------------------------------------ one call
\* an acquire without its release: the slot is never given back
NeverReleased(sems, s, raised) == sems

\* a release written after the request instead of an async with: skipped
\* when the block raises
ReleaseUnlessRaised(sems, s, raised) ==
    IF raised = NoException THEN [sems EXCEPT ![s] = @ + 1] ELSE sems

\* the exit of "async with self._request_semaphore" (line 414) of semaphore s,
\* whatever the block raised
AsyncWithExit(sems, s, raised) == [sems EXCEPT ![s] = @ + 1]

\* the payload of lines 459-505
BuildPayload(req, built) ==
    IF chat_completions
    THEN [format |-> "messages",
          history |-> OpenAIHistory(req.user_message, req.chat_history, req.pref_len),
          messages |-> _build_openai_messages(req.user_message, req.chat_history,
                                              req.pref_len)]
    ELSE [format |-> "inputs", history |-> built.used_history, messages |-> <<>>]

\* generate_response returns or raises res
Finished(st, res) ==
    [st EXCEPT !.pc = "done", !.result = res, !.slot = 0, !.wake_at = 0]

\* _make_api_request raised exc: the retry decorator (lines 387-391), then the
\* except clauses of generate_response (lines 657-666)
Raise(st, exc) ==
    IF RetryIfExceptionType(exc)
    THEN IF st.attempt_number < MaxAttempts
         THEN [st EXCEPT !.pc = "backoff", !.slot = 0,
                         !.attempt_number = @ + 1,
                         !.wake_at = now + WaitExponential(st.attempt_number)
                                             * TicksPerSecond]
         ELSE Finished(st, Raised(GenerateResponseExcept(Exc("RetryError", 0))))
    ELSE Finished(st, Raised(GenerateResponseExcept(exc)))

\* the try block raised `raised` (or returned a 200 response with `text`):
\* the except clauses (lines 570-586), the exit of the async with, the retry
\* decorator, then the rest of generate_response (lines 633-655)
AfterAttempt(st, raised, text) ==
    LET exc == IF raised = NoException THEN NoException ELSE ExceptClauses(raised)
        released == [st EXCEPT !.semaphores = AsyncWithExit(@, st.slot, raised)]
    IN  IF exc = NoException THEN Finished(released, ExtractAndClean(text))
        ELSE Raise(released, exc)

\* lines 424-521: record the send time, build the payload, call client.post
Send(st, req, built) ==
    LET sending == [st EXCEPT !._last_request_time = now,
                              !.payload = BuildPayload(req, built),
                              !.wake_at = 0]
    IN  IF st.client = "None"
        THEN \* self.client.post raises AttributeError inside the try
             AfterAttempt(sending, Exc("AttributeError", 0), "")
        ELSE [sending EXCEPT !.pc = "post",
                             !.dispatches = @ + 1,
                             !.send_times = IF Len(@) < 2 THEN Append(@, now)
                                            ELSE <<@[2], now>>]

\* lines 415-424, holding a slot: the pacer
Pacer(st, req, built) ==
    LET time_since_last == now - st._last_request_time
    IN  IF time_since_last < min_interval
        THEN [st EXCEPT !.pc = "pacing",
                        !.wake_at = now + (min_interval - time_since_last)]
        ELSE Send(st, req, built)

\* line 414: enter the async with of semaphore st.slot, or wait for a slot
AsyncWithEnter(st, req, built) ==
    IF st.semaphores[st.slot] = 0
    THEN [st EXCEPT !.pc = "gate", !.wake_at = 0]
    ELSE Pacer([st EXCEPT !.semaphores[st.slot] = @ - 1], req, built)

\* one attempt of _make_api_request up to its first suspension (lines 410-521)
_make_api_request(st, req, built) ==
    IF st.client = "None" THEN Raise(st, Exc("AIServiceError", 0))
    ELSE AsyncWithEnter([st EXCEPT !.slot = st._request_semaphore], req, built)

\* generate_response up to its first suspension (lines 612-631); init_raises
\* is what initialize() raises if it has to run. The await of lines 612-614
\* stands before the try, so what initialize() raises reaches the caller.
generate_response(st, req, built, init_raises) ==
    LET fresh == [st EXCEPT !.payload = NoPayload, !.dispatches = 0,
                            !.wake_at = 0, !.slot = 0, !.result = NoResult,
                            !.attempt_number = 0]
        called == initialize(fresh)
    IN  IF ~st._initialized /\ init_raises # NoException
        THEN Finished(fresh, Raised(InitializeExcept(init_raises)))
        ELSE IF built.total_tokens > max_context_tokens
        THEN Finished(called,
                      Raised(GenerateResponseExcept(Exc("TokenLimitExceededError", 0))))
        ELSE _make_api_request([called EXCEPT !.attempt_number = 1], req, built)

\* caller c calls ai_service.generate_response (message_service.py 245)
GenerateResponse(c, reqs, scripts, inits) ==
    /\ pc[c] \in {"idle", "done"}
    /\ now <= MaxTime
    /\ \E req \in reqs, script \in scripts, init_raises \in inits :
        LET built == build_chat_prompt(req.user_message, req.chat_history, req.pref_len)
        IN  /\ request' = [request EXCEPT ![c] = req]
            /\ endpoint' = [endpoint EXCEPT ![c] = script]
            /\ prompt' = [prompt EXCEPT ![c] = built]
            /\ Suspend(c, generate_response(Snapshot(c), req, built, init_raises))

\* the loop resumes a caller waiting for a slot of its semaphore (line 414),
\* or one whose wait before the next attempt is over (line 389)
AcquireSlot(c) ==
    /\ \/ pc[c] = "gate" /\ semaphores[slot[c]] > 0
       \/ pc[c] = "backoff" /\ now >= wake_at[c]
    /\ Suspend(c, IF pc[c] = "gate"
                  THEN AsyncWithEnter(Snapshot(c), request[c], prompt[c])
                  ELSE _make_api_request(Snapshot(c), request[c], prompt[c]))
    /\ UNCHANGED <<request, endpoint, prompt>>

\* line 422: asyncio.sleep(sleep_time) returns
WakeFromPacing(c) ==
    /\ pc[c] = "pacing"
    /\ now >= wake_at[c]
    /\ Suspend(c, Send(Snapshot(c), request[c], prompt[c]))
    /\ UNCHANGED <<request, endpoint, prompt>>

\* line 514: client.post returns a response or raises
ReceiveResponse(c) ==
    /\ pc[c] = "post"
    /\ \E outcome \in Replies(endpoint[c], dispatches[c]) :
           Suspend(c, AfterAttempt(Snapshot(c), TryBody(outcome), outcome.text))
    /\ UNCHANGED <<request, endpoint, prompt>>

\* the loop clock advances
Tick ==
    /\ now < MaxTime \/ \E c \in Callers : wake_at[c] > now
    /\ now' = now + 1
    /\ UNCHANGED <<service, close_pc, calls, send_times, standalone>>

\* ---------------------------------------------------------- specifications
\* the service with concurrent callers, initialize() and close()
\* settings.hf_max_rps: a gate of one slot, and one of two
RpsChoices == {1, 2}
Init == InitWith(RpsChoices, {TRUE})
Next ==
    \/ \E c \in Callers :
        \/ GenerateResponse(c, PlainRequests, Unscripted, InitOutcomes)
        \/ AcquireSlot(c)
        \/ WakeFromPacing(c)
        \/ ReceiveResponse(c)
    \/ Initialize
    \/ CloseBegin
    \/ CloseFinish
    \/ Tick
Spec == Init /\ [][Next]_vars

\* concurrent callers of a service that is never closed
NextCallers ==
    \/ \E c \in Callers :
        \/ GenerateResponse(c, PlainRequests, Unscripted, InitSucceeds)
        \/ AcquireSlot(c)
        \/ WakeFromPacing(c)
        \/ ReceiveResponse(c)
    \/ Tick
SpecCallers == Init /\ [][NextCallers]_vars

\* one caller, every request, an endpoint that answers 200
InitContext == InitWith({1}, BOOLEAN)
NextContext ==
    \/ pc[1] = "idle" /\ GenerateResponse(1, Requests, {<<Response(200, " Hello there!")>>}, InitSucceeds)
    \/ ReceiveResponse(1)
SpecContext == InitContext /\ [][NextContext]_vars

\* a gate of one slot: one call of caller 1 under every script of the
\* endpoint, while the other callers' calls are answered 200
InitRetry == InitWith({1}, {FALSE})
NextRetry ==
    \/ pc[1] = "idle" /\ GenerateResponse(1, PlainRequests, Scripts, InitSucceeds)
    \/ \E c \in Callers \ {1} :
          GenerateResponse(c, PlainRequests, {<<Response(200, " Hello there!")>>}, InitSucceeds)
    \/ \E c \in Callers :
        \/ AcquireSlot(c)
        \/ WakeFromPacing(c)
        \/ ReceiveResponse(c)
    \/ Tick
SpecRetry == InitRetry /\ [][NextRetry]_vars

\* the event loop is fair to the tasks it runs: a task that can take a slot
\* again and again is resumed (asyncio.Semaphore wakes its waiters in the
\* order they came), a sleep that is over returns, every request sent is
\* answered or times out, and time passes
FairLoop ==
    /\ \A c \in Callers :
        /\ SF_vars(AcquireSlot(c))
        /\ WF_vars(WakeFromPacing(c))
        /\ WF_vars(ReceiveResponse(c))
    /\ WF_vars(Tick)
SpecFair == Init /\ [][NextCallers]_vars /\ FairLoop

\* the wait of the retry decorator (line 389) on its own: the attempt of a
\* call fails with what the retry condition takes, once more each time up to
\* MaxRetryNumber times, and the decorator sleeps before the next attempt;
\* attempt_number counts the attempts that failed
MaxRetryNumber == 8
RetrySleeps(c) ==
    /\ attempt_number[c] < MaxRetryNumber
    /\ pc' = [pc EXCEPT ![c] = "backoff"]
    /\ attempt_number' = [attempt_number EXCEPT ![c] = @ + 1]
    /\ wake_at' = [wake_at EXCEPT
                      ![c] = now + WaitExponential(attempt_number[c] + 1) * TicksPerSecond]
    /\ UNCHANGED <<service, now, close_pc, request, endpoint, dispatches, slot,
                   prompt, payload, result, send_times, standalone>>
InitBackoff == InitWith(RpsChoices, {TRUE})
NextBackoff == \E c \in Callers : RetrySleeps(c)
SpecBackoff == InitBackoff /\ [][NextBackoff]_vars

\* one call on the single-string variant with a history of hundreds of turns,
\* all alike (build_chat_prompt takes a history of any length; line 237 of
\* message_service.py passes the last 20 turns)
LongTurns == 640
Uniform(turn, n) == [i \in 1..n |-> turn]
LongHistories ==
    {Uniform([role |-> role, content |-> content], n) :
        role \in {"user", "assistant"}, content \in Contents,
        n \in {1, LongTurns \div 8, LongTurns}}
LongRequests ==
    [user_message : UserMessages, chat_history : LongHistories, pref_len : {0, 7000}]
InitLong == InitWith({1}, {FALSE})
NextLong ==
    \/ pc[1] = "idle"
       /\ GenerateResponse(1, LongRequests, {<<Response(200, " Hello there!")>>},
                           InitSucceeds)
    \/ ReceiveResponse(1)
SpecLong == InitLong /\ [][NextLong]_vars

\* _clean_response on its own, applied to a text and again to what it returned
MaxPasses == 2
\* the texts a backend may generate: up to MaxPieces pieces in a row, a
\* delimiter written inside another one, and texts around the length limit
MaxPieces == 2
Delimiters == {"<|im_start|>", "<|im_end|>"}
Pieces ==
    Delimiters \cup {"assistant\n", "Human:", "AI:", "User:", "user", "hi", " ", "\n"}
RECURSIVE Concats(_)
Concats(n) ==
    IF n = 0 THEN {""}
    ELSE LET shorter == Concats(n - 1)
         IN  shorter \cup {s \o p : s \in shorter, p \in Pieces}
Nested(outer, inner, k) ==
    SubSeq(outer, 1, k) \o inner \o SubSeq(outer, k + 1, Len(outer))
NestedResponses ==
    {Nested(outer, inner, k) \o "hi" :
        outer \in Delimiters, inner \in Delimiters, k \in {2, 5}}
RECURSIVE Repeat(_, _)
Repeat(s, n) ==
    IF n = 0 THEN ""
    ELSE LET half == Repeat(s, n \div 2)
         IN  half \o half \o (IF n % 2 = 1 THEN s ELSE "")
LongLengths ==
    {MaxResponseChars - 1, MaxResponseChars, MaxResponseChars + 1,
     MaxResponseChars + MaxResponseChars \div 4}
LongResponses ==
    {prefix \o Repeat("A", n) : prefix \in {"", "AI: Human: "}, n \in LongLengths}
RawResponses == Concats(MaxPieces) \cup NestedResponses \cup LongResponses

InitClean ==
    /\ Constructed({1}, {TRUE})
    /\ response \in RawResponses
    /\ cleaned = <<>>
    /\ EstimatorIdle
    /\ CallerSideIdle

\* self._clean_response(...) (line 650), called with the text or with what
\* the last call returned
CleanResponse ==
    /\ Len(cleaned) < MaxPasses
    /\ cleaned' = Append(cleaned, _clean_response(IF cleaned = <<>> THEN response
                                                  ELSE cleaned[Len(cleaned)]))
    /\ UNCHANGED <<service, now, close_pc, calls, send_times, response, estimator,
                   caller_side>>

NextClean == CleanResponse
SpecClean == InitClean /\ [][NextClean]_vars

\* count_tokens on its own, with and without a tokenizer
MaxTextLen == 13
TokenTexts == {SubSeq(Repeat("Hello world test ", MaxTextLen), 1, n) : n \in 0..MaxTextLen}
InitTokens ==
    /\ Constructed({1}, {TRUE})
    /\ SanitizerIdle
    /\ tokenizer \in {"None", "loaded"}
    /\ counted_text = ""
    /\ encoded = NotEncoded
    /\ tokens = NotCounted
    /\ CallerSideIdle

\* self.count_tokens(text)
CountTokensCall ==
    \E text \in TokenTexts : \E encoding \in Encodings(text) :
        /\ counted_text' = text
        /\ encoded' = IF tokenizer = "None" THEN NotEncoded ELSE encoding
        /\ tokens' = CountTokens(tokenizer, text, encoding)
        /\ UNCHANGED <<service, now, close_pc, calls, send_times, sanitizer, tokenizer,
                       caller_side>>

NextTokens == CountTokensCall
SpecTokens == InitTokens /\ [][NextTokens]_vars

\* --------------------------------------------------------- the rate limiter
\* RateLimiter (app/services/rate_limiter.py) over a Redis whose clock counts
\* seconds up to MaxSeconds.  Keys are only ever written by SETEX, so every
\* key has an expiry.
MaxSeconds == 3

\* redis-py executes a command, or raises
RedisOutcomes == {"ok", "raises"}
\* GET rate_limit:{chat_id}: the value, None once the key has expired
RedisGet(exp, user) == IF exp[user] > redis_time THEN "1" ELSE "None"
\* TTL rate_limit:{chat_id}: the seconds left, -2 when there is no key
RedisTtl(exp, user) == IF exp[user] > redis_time THEN exp[user] - redis_time ELSE -2
\* SETEX rate_limit:{chat_id} seconds 1
RedisSetex(exp, user, seconds) == [exp EXCEPT ![user] = redis_time + seconds]

\* What the task of caller c reads and writes between two suspension points
\* on the caller's side.
Task(c) ==
    [handler_pc |-> handler_pc[c], limiter_pc |-> limiter_pc[c],
     chat_id |-> chat_id[c], answer |-> answer[c], gates |-> gates[c],
     reply |-> reply[c], db_pc |-> db_pc[c], db_op |-> db_op[c],
     session |-> session[c],
     expires |-> expires, admitted |-> admitted, profiles |-> profiles,
     payments |-> payments, deductions |-> deductions, credits |-> credits]

\* the task suspends (or returns) leaving t behind
TaskSuspends(c, t) ==
    /\ handler_pc' = [handler_pc EXCEPT ![c] = t.handler_pc]
    /\ limiter_pc' = [limiter_pc EXCEPT ![c] = t.limiter_pc]
    /\ chat_id' = [chat_id EXCEPT ![c] = t.chat_id]
    /\ answer' = [answer EXCEPT ![c] = t.answer]
    /\ gates' = [gates EXCEPT ![c] = t.gates]
    /\ expires' = t.expires
    /\ admitted' = t.admitted
    /\ profiles' = t.profiles
    /\ reply' = [reply EXCEPT ![c] = t.reply]
    /\ db_pc' = [db_pc EXCEPT ![c] = t.db_pc]
    /\ db_op' = [db_op EXCEPT ![c] = t.db_op]
    /\ session' = [session EXCEPT ![c] = t.session]
    /\ payments' = t.payments
    /\ deductions' = t.deductions
    /\ credits' = t.credits
    /\ UNCHANGED <<service, now, close_pc, calls, send_times, sanitizer, estimator,
                   redis, redis_time, opening>>

Calling(op) == [NoAnswer EXCEPT !.op = op]
Max(a, b) == IF a >= b THEN a ELSE b

\* a get_remaining_time that returns what TTL answered
RemainingUnclamped(ttl) == ttl

\* the value of line 72
Remaining(ttl) == Max(0, ttl)

\* an except clause that logs and raises again
ExceptReraises(ans) == [ans EXCEPT !.raised = TRUE, !.redis_failed = TRUE]

\* the except clauses of lines 58-61 and 73-75: return False, return 0
ExceptException(ans) ==
    [ans EXCEPT !.limited = FALSE, !.remaining = 0, !.redis_failed = TRUE]

\* get_remaining_time returns or raises ans: to the task that called it on
\* its own, or into handle_message, which replies and returns
\* (handlers.py 463-467)
GetRemainingTimeReturns(t, ans) ==
    LET returned == [t EXCEPT !.limiter_pc = "returned", !.answer = ans]
    IN  IF t.handler_pc = "idle" THEN returned
        ELSE [returned EXCEPT !.handler_pc = "done", !.reply = "rate_limit"]

\* get_remaining_time up to its first suspension (lines 63-71)
get_remaining_time(t) ==
    IF redis = "None"
    THEN GetRemainingTimeReturns(t, [Calling("get_remaining_time")
                                        EXCEPT !.redis_failed = TRUE])
    ELSE [t EXCEPT !.limiter_pc = "ttl", !.answer = Calling("get_remaining_time")]

\* is_rate_limited returns or raises ans: to the task that called it on its
\* own, or into handle_message (handlers.py 461-469)
IsRateLimitedReturns(t, ans) ==
    LET returned == [t EXCEPT !.limiter_pc = "returned", !.answer = ans]
    IN  IF t.handler_pc = "idle" THEN returned
        ELSE IF ans.raised THEN [returned EXCEPT !.handler_pc = "done"]
        ELSE IF ans.limited
        THEN get_remaining_time([returned EXCEPT
                                    !.handler_pc = "get_remaining_time",
                                    !.gates = Append(@, "rate: blocked")])
        ELSE [returned EXCEPT !.handler_pc = "get_user_by_chat_id",
                              !.gates = Append(@, "rate: not blocked")]

\* is_rate_limited up to its first suspension (lines 36-46)
is_rate_limited(t) ==
    IF redis = "None"
    THEN IsRateLimitedReturns(t, [Calling("is_rate_limited")
                                     EXCEPT !.redis_failed = TRUE])
    ELSE [t EXCEPT !.limiter_pc = "get", !.answer = Calling("is_rate_limited")]

\* lines 46-56: self.redis.get returned or raised
AfterGet(t, outcome) ==
    IF outcome = "raises" THEN IsRateLimitedReturns(t, ExceptException(t.answer))
    ELSE IF RedisGet(t.expires, t.chat_id) = "None"
    THEN [t EXCEPT !.limiter_pc = "setex"]
    ELSE IsRateLimitedReturns(t, [t.answer EXCEPT !.limited = TRUE])

\* lines 51-52: self.redis.setex returned or raised
AfterSetex(t, outcome) ==
    IF outcome = "raises" THEN IsRateLimitedReturns(t, ExceptException(t.answer))
    ELSE IsRateLimitedReturns(
             [t EXCEPT !.expires = RedisSetex(@, t.chat_id, rate_limit_per_user_sec),
                       !.admitted[t.chat_id] = IF Len(@) < 2 THEN Append(@, redis_time)
                                               ELSE <<@[2], redis_time>>],
             [t.answer EXCEPT !.limited = FALSE])

\* lines 71-72: self.redis.ttl returned or raised
AfterTtl(t, outcome) ==
    IF outcome = "raises" THEN GetRemainingTimeReturns(t, ExceptException(t.answer))
    ELSE GetRemainingTimeReturns(
             t, [t.answer EXCEPT !.remaining = Remaining(RedisTtl(t.expires, t.chat_id))])

\* a task calls rate_limiter.is_rate_limited(chat_id) on its own
IsRateLimitedCall(c) ==
    /\ handler_pc[c] = "idle"
    /\ limiter_pc[c] \in {"idle", "returned"}
    /\ \E user \in Users :
          TaskSuspends(c, is_rate_limited([Task(c) EXCEPT !.chat_id = user]))

\* a task calls rate_limiter.get_remaining_time(chat_id) on its own
GetRemainingTimeCall(c) ==
    /\ handler_pc[c] = "idle"
    /\ limiter_pc[c] \in {"idle", "returned"}
    /\ \E user \in Users :
          TaskSuspends(c, get_remaining_time([Task(c) EXCEPT !.chat_id = user]))

\* Redis answers the GET, SETEX or TTL of caller c, or the client raises
GetReplies(c) ==
    /\ limiter_pc[c] = "get"
    /\ \E outcome \in RedisOutcomes : TaskSuspends(c, AfterGet(Task(c), outcome))
SetexReplies(c) ==
    /\ limiter_pc[c] = "setex"
    /\ \E outcome \in RedisOutcomes : TaskSuspends(c, AfterSetex(Task(c), outcome))
TtlReplies(c) ==
    /\ limiter_pc[c] = "ttl"
    /\ \E outcome \in RedisOutcomes : TaskSuspends(c, AfterTtl(Task(c), outcome))

\* a second passes on the Redis server
RedisSecond ==
    /\ redis_time < MaxSeconds
    /\ redis_time' = redis_time + 1
    /\ UNCHANGED <<service, now, close_pc, calls, send_times, sanitizer, estimator,
                   redis, expires, limiter_pc, chat_id, answer, admitted, handlers,
                   ledger>>

\* two tasks calling the rate limiter concurrently, before and after
\* init_redis (bot/main.py 93)
LimiterTasks == {1, 2}
InitLimiter ==
    /\ Constructed({1}, {TRUE})
    /\ SanitizerIdle
    /\ EstimatorIdle
    /\ redis \in {"None", "Redis"}
    /\ NoLimiterCall
    /\ HandlersIdle
    /\ LedgerIdle
NextLimiter ==
    \/ \E c \in LimiterTasks :
        \/ IsRateLimitedCall(c)
        \/ GetRemainingTimeCall(c)
        \/ GetReplies(c)
        \/ SetexReplies(c)
        \/ TtlReplies(c)
    \/ RedisSecond
SpecLimiter == InitLimiter /\ [][NextLimiter]_vars

\* --------------------------------------------------------------- the ledger
\* The loan balances in user_profile and the operations that write them.
\* Each operation runs in its own AsyncSession (database/connection.py
\* 66-70): it loads rows into the session, changes the loaded objects, and
\* its commit writes the changed attributes back.
\* a database call returns, or raises
DbOutcomes == {"ok", "raises"}

\* UserProfile.has_loans (models.py 82-84)
has_loans(loan_balance) == loan_balance > 0
\* UserProfile.deduct_loan (models.py 86-91): the balance it leaves
UserProfileDeductLoan(loan_balance) ==
    IF loan_balance > 0 THEN loan_balance - 1 ELSE loan_balance
\* UserProfile.add_loans (models.py 93-95): the balance it leaves
UserProfileAddLoans(loan_balance, amount) == loan_balance + amount

\* session.commit(): the UPDATE of each changed user_profile object
Flush(rows, loaded) ==
    [u \in Users |-> IF loaded[u].loaded
                     THEN [rows[u] EXCEPT !.loan_balance = loaded[u].loan_balance]
                     ELSE rows[u]]

\* the operation of the task returns value (or raises) and its session closes
DbReturns(t, value, failed) ==
    [t EXCEPT !.db_pc = "returned", !.session = EmptySession,
              !.db_op.returned = value,
              !.db_op.db_failed = t.db_op.db_failed \/ failed]

\* handlers.py 475-490: deduct_loan returned to handle_message
AfterDeductLoan(t, deducted) ==
    IF deducted
    THEN [t EXCEPT !.gates = Append(@, "loan: deducted"),
                   !.handler_pc = "save_user_message"]
    ELSE [t EXCEPT !.gates = Append(@, "loan: not deducted"),
                   !.reply = "no_loans",
                   !.handler_pc = "done"]

\* UserService.deduct_loan returns: to the task that called it on its own,
\* or into handle_message
DeductLoanReturned(t, deducted, failed) ==
    LET counted == IF deducted THEN [t EXCEPT !.deductions[t.chat_id] = @ + 1] ELSE t
        returned == DbReturns(counted, IF deducted THEN "True" ELSE "False", failed)
    IN  IF t.handler_pc = "idle" THEN returned
        ELSE AfterDeductLoan(returned, deducted)

\* UserService.deduct_loan up to its first suspension (user_service.py 187-193)
deduct_loan(t) ==
    [t EXCEPT !.db_pc = "select", !.db_op = [NoOp EXCEPT !.name = "deduct_loan"]]

\* a deduct_loan that goes on whatever has_loans says
DeductAfterSelectUnchecked(t, outcome) ==
    IF outcome = "raises" THEN DeductLoanReturned(t, FALSE, TRUE)
    ELSE LET user == t.profiles[t.chat_id]
         IN  [t EXCEPT !.db_pc = "commit",
                       !.session[t.chat_id] =
                           Loaded(UserProfileDeductLoan(user.loan_balance))]

\* lines 193-204: the select returned the row or raised
DeductAfterSelect(t, outcome) ==
    IF outcome = "raises" THEN DeductLoanReturned(t, FALSE, TRUE)
    ELSE LET user == t.profiles[t.chat_id]
         IN  IF ~user.exists \/ ~has_loans(user.loan_balance)
             THEN DeductLoanReturned(t, FALSE, FALSE)
             ELSE [t EXCEPT !.db_pc = "commit",
                            !.session[t.chat_id] =
                                Loaded(UserProfileDeductLoan(user.loan_balance))]

\* lines 204-212: the statistics and the commit went through, or one raised
DeductAfterCommit(t, outcome) ==
    IF outcome = "raises" THEN DeductLoanReturned(t, FALSE, TRUE)
    ELSE DeductLoanReturned([t EXCEPT !.profiles = Flush(@, t.session)], TRUE, FALSE)

\* UserService.add_loans (user_service.py 214-229); nothing catches what the
\* database raises
add_loans(t, amount) ==
    [t EXCEPT !.db_pc = "select",
              !.db_op = [NoOp EXCEPT !.name = "add_loans", !.amount = amount]]
AddAfterSelect(t, outcome) ==
    IF outcome = "raises" THEN DbReturns(t, "raised", TRUE)
    ELSE LET user == t.profiles[t.chat_id]
         IN  IF ~user.exists THEN DbReturns(t, "False", FALSE)
             ELSE [t EXCEPT !.db_pc = "commit",
                            !.session[t.chat_id] =
                                Loaded(UserProfileAddLoans(user.loan_balance,
                                                           t.db_op.amount))]
AddAfterCommit(t, outcome) ==
    IF outcome = "raises" THEN DbReturns(t, "raised", TRUE)
    ELSE DbReturns([t EXCEPT !.profiles = Flush(@, t.session)], "True", FALSE)

\* SchedulerService.replenish_daily_loans (scheduler_service.py 18-84)
replenish_daily_loans(t) ==
    [t EXCEPT !.db_pc = "select", !.db_op = [NoOp EXCEPT !.name = "replenish_daily_loans"]]

\* a job that tops every selected balance up by free_daily_loans
ReplenishByAdding(rows) ==
    [u \in Users |-> IF rows[u].exists /\ rows[u].loan_balance < free_daily_loans
                     THEN Loaded(rows[u].loan_balance + free_daily_loans)
                     ELSE NotLoaded]

\* lines 46-60: the rows the select returns, each set to min_loans
ReplenishSelected(rows) ==
    [u \in Users |-> IF rows[u].exists /\ rows[u].loan_balance < free_daily_loans
                     THEN Loaded(free_daily_loans)
                     ELSE NotLoaded]

\* lines 47-73: no commit when no row was selected
ReplenishAfterSelect(t, outcome) ==
    IF outcome = "raises" THEN DbReturns(t, "raised", TRUE)
    ELSE LET selected == ReplenishSelected(t.profiles)
         IN  IF \A u \in Users : ~selected[u].loaded THEN DbReturns(t, "stats", FALSE)
             ELSE [t EXCEPT !.db_pc = "commit", !.session = selected]
ReplenishAfterCommit(t, outcome) ==
    IF outcome = "raises" THEN DbReturns(t, "raised", TRUE)
    ELSE DbReturns([t EXCEPT !.profiles = Flush(@, t.session)], "stats", FALSE)

\* Payment.is_paid, Payment.is_pending (models.py 431-437)
is_paid(status) == status = "paid"
is_pending(status) == status = "pending"

\* what Lava reports for a payment: to the webhook eventType payment.success
\* with status completed, or payment.failed with status failed; to a status
\* check COMPLETED or FAILED
PaymentEvents == {"success", "failed"}

\* the webhook (webhook/handler.py 56-97, payment_service.py 517-557) and
\* check_payment_status (payment_service.py 414-430) up to the select of the
\* payment
process_webhook(t, p, event) ==
    [t EXCEPT !.db_pc = "select",
              !.db_op = [NoOp EXCEPT !.name = "process_webhook",
                                     !.payment = p, !.event = event]]
check_payment_status(t, p, event) ==
    [t EXCEPT !.db_pc = "select",
              !.db_op = [NoOp EXCEPT !.name = "check_payment_status",
                                     !.payment = p, !.event = event]]

\* the conditions of webhook/handler.py 115 and 137, payment_service.py 574
\* and 580, 474 and 476, on the loaded payment: mark_as_paid, mark_as_failed
\* or neither
Mark(status, event) ==
    IF event = "success" /\ ~is_paid(status) THEN "paid"
    ELSE IF event = "failed" /\ is_pending(status) THEN "failed"
    ELSE "none"

\* the select returned the payment or raised; with the payment marked paid
\* the session executes UPDATE user_profile SET loan_balance = loan_balance
\* + tokens_to_receive (webhook/handler.py 120-125, payment_service.py
\* 609-614), whose effect the commit makes visible
PaymentAfterSelect(t, outcome) ==
    IF outcome = "raises" THEN DbReturns(t, "False", TRUE)
    ELSE LET payment == t.payments[t.db_op.payment]
             marked == Mark(payment.status, t.db_op.event)
         IN  [t EXCEPT !.db_pc = "commit",
                       !.db_op.loaded_status = payment.status,
                       !.db_op.marked = marked,
                       !.db_op.amount = IF marked = "paid"
                                        THEN payment.tokens_to_receive ELSE 0]

\* the rows after the commit of a session that marked the payment and
\* executed the UPDATE of the balance of its chat
Credited(rows, chat, amount) ==
    [rows EXCEPT ![chat].loan_balance = @ + amount]

\* the commit went through, or raised and the transaction is rolled back
PaymentAfterCommit(t, outcome) ==
    IF outcome = "raises" THEN DbReturns(t, "False", TRUE)
    ELSE LET p == t.db_op.payment
             chat == t.payments[p].chat_id
             paid == t.db_op.marked = "paid"
             written == IF t.db_op.marked = "none" THEN t
                        ELSE [t EXCEPT !.payments[p].status = t.db_op.marked]
             credited == IF paid /\ t.profiles[chat].exists
                         THEN [written EXCEPT
                                 !.profiles = Credited(@, chat, t.db_op.amount),
                                 !.credits[p] = @ + 1]
                         ELSE written
         IN  DbReturns(credited, "True", FALSE)

\* the select of the operation of a task returned or raised
AfterSelect(t, outcome) ==
    CASE t.db_op.name = "deduct_loan" -> DeductAfterSelect(t, outcome)
      [] t.db_op.name = "add_loans" -> AddAfterSelect(t, outcome)
      [] t.db_op.name = "replenish_daily_loans" -> ReplenishAfterSelect(t, outcome)
      [] t.db_op.name \in {"process_webhook", "check_payment_status"} ->
            PaymentAfterSelect(t, outcome)

\* its commit returned or raised
AfterCommit(t, outcome) ==
    CASE t.db_op.name = "deduct_loan" -> DeductAfterCommit(t, outcome)
      [] t.db_op.name = "add_loans" -> AddAfterCommit(t, outcome)
      [] t.db_op.name = "replenish_daily_loans" -> ReplenishAfterCommit(t, outcome)
      [] t.db_op.name \in {"process_webhook", "check_payment_status"} ->
            PaymentAfterCommit(t, outcome)

\* a task calls UserService.deduct_loan(chat_id) on its own, until
\* MaxDeductions loans of the chat are spent
MaxDeductions == 2
DeductLoanCall(c) ==
    /\ handler_pc[c] = "idle"
    /\ db_pc[c] \in {"idle", "returned"}
    /\ \E user \in Users :
        /\ deductions[user] < MaxDeductions
        /\ TaskSuspends(c, deduct_loan([Task(c) EXCEPT !.chat_id = user]))

\* a task calls UserService.add_loans(chat_id, amount); balances are kept
\* within MaxBalance
Amounts == {0, 1}
MaxBalance == free_daily_loans + 2
AddLoansCall(c) ==
    /\ handler_pc[c] = "idle"
    /\ db_pc[c] \in {"idle", "returned"}
    /\ \E user \in Users, amount \in Amounts :
        /\ profiles[user].loan_balance + amount <= MaxBalance
        /\ TaskSuspends(c, add_loans([Task(c) EXCEPT !.chat_id = user], amount))

\* the scheduler runs the daily job (scheduler.py)
ReplenishDailyLoans(c) ==
    /\ handler_pc[c] = "idle"
    /\ db_pc[c] \in {"idle", "returned"}
    /\ TaskSuspends(c, replenish_daily_loans(Task(c)))

\* the database answers the select or the commit of caller c, or the call raises
SelectReturns(c) ==
    /\ db_pc[c] = "select"
    /\ \E outcome \in DbOutcomes : TaskSuspends(c, AfterSelect(Task(c), outcome))
CommitReturns(c) ==
    /\ db_pc[c] = "commit"
    /\ \E outcome \in DbOutcomes : TaskSuspends(c, AfterCommit(Task(c), outcome))

\* one task at a time on the ledger: every operation ends before the next
\* begins
LedgerBalances == {0, free_daily_loans - 1, free_daily_loans + 1}
LedgerRows == {NoProfile} \cup {Profile(TRUE, b) : b \in LedgerBalances}
InitLedger ==
    /\ Constructed({1}, {TRUE})
    /\ SanitizerIdle
    /\ EstimatorIdle
    /\ LimiterIdle
    /\ NoMessage
    /\ profiles \in [Users -> LedgerRows]
    /\ LedgerIdle
NextLedger ==
    \/ DeductLoanCall(1)
    \/ AddLoansCall(1)
    \/ ReplenishDailyLoans(1)
    \/ SelectReturns(1)
    \/ CommitReturns(1)
SpecLedger == InitLedger /\ [][NextLedger]_vars

\* Lava calls the webhook for a payment, or the bot checks its status, until
\* MaxCredits credits of the payment are written
MaxCredits == 2
ProcessWebhook(c) ==
    /\ handler_pc[c] = "idle"
    /\ db_pc[c] \in {"idle", "returned"}
    /\ \E p \in PaymentIds, event \in PaymentEvents :
        /\ credits[p] < MaxCredits
        /\ TaskSuspends(c, process_webhook(Task(c), p, event))
CheckPaymentStatus(c) ==
    /\ handler_pc[c] = "idle"
    /\ db_pc[c] \in {"idle", "returned"}
    /\ \E p \in PaymentIds, event \in PaymentEvents :
        /\ credits[p] < MaxCredits
        /\ TaskSuspends(c, check_payment_status(Task(c), p, event))

\* concurrent webhooks and status checks while each user has one payment
\* pending, for the package of TokenPackage tokens
PaymentTasks == {1, 2}
PendingPayments == [p \in PaymentIds |-> Payment("pending", 100 + p, TokenPackage)]
InitPayments ==
    /\ Constructed({1}, {TRUE})
    /\ SanitizerIdle
    /\ EstimatorIdle
    /\ LimiterIdle
    /\ NoMessage
    /\ profiles \in [Users -> {NoProfile, Profile(TRUE, 0)}]
    /\ NoDbCall
    /\ payments = PendingPayments
NextPayments ==
    \E c \in PaymentTasks :
        \/ ProcessWebhook(c)
        \/ CheckPaymentStatus(c)
        \/ SelectReturns(c)
        \/ CommitReturns(c)
SpecPayments == InitPayments /\ [][NextPayments]_vars

\* concurrent deductions: tasks that call deduct_loan and nothing else, on
\* balances of a few loans
LoanTasks == {1, 2}
LoanRows == {Profile(TRUE, b) : b \in 0..MaxDeductions}
InitLoans ==
    /\ Constructed({1}, {TRUE})
    /\ SanitizerIdle
    /\ EstimatorIdle
    /\ LimiterIdle
    /\ NoMessage
    /\ profiles \in [Users -> LoanRows]
    /\ LedgerIdle
NextLoans ==
    \E c \in LoanTasks :
        \/ DeductLoanCall(c)
        \/ SelectReturns(c)
        \/ CommitReturns(c)
SpecLoans == InitLoans /\ [][NextLoans]_vars

\* ---------------------------------------------------------- handle_message
\* BotHandlers.handle_message (app/bot/handlers.py 421-540), one task for
\* each inbound message.  gates logs the verdict of each check it makes.
\* what lines 424-458 make of the update: a chat message, or one answered
\* (or swallowed) before the checks
Routes == {"chat", "empty text", "too long", "preferences edit", "promo code"}
\* handle_message up to its first suspension (lines 424-461)
handle_message(t, route) ==
    IF route # "chat" THEN [t EXCEPT !.handler_pc = "done", !.reply = route]
    ELSE is_rate_limited([t EXCEPT !.handler_pc = "is_rate_limited"])

\* the condition of line 470 on the row get_user_by_chat_id returned
AgeVerdict(user) ==
    IF user.exists /\ user.age_verified THEN "age: verified" ELSE "age: not verified"

\* a handler that goes on whatever the row says
AfterGetUserUnchecked(t, outcome) ==
    IF outcome = "raises" THEN [t EXCEPT !.handler_pc = "done"]
    ELSE deduct_loan([t EXCEPT !.handler_pc = "deduct_loan",
                               !.gates = Append(@, AgeVerdict(t.profiles[t.chat_id]))])

\* lines 469-475: get_user_by_chat_id returned the row or raised
AfterGetUser(t, outcome) ==
    IF outcome = "raises" THEN [t EXCEPT !.handler_pc = "done"]
    ELSE LET verdict == AgeVerdict(t.profiles[t.chat_id])
             checked == [t EXCEPT !.gates = Append(@, verdict)]
         IN  IF verdict = "age: not verified"
             THEN [checked EXCEPT !.handler_pc = "done",
                                  !.reply = "age_verification_required"]
             ELSE deduct_loan([checked EXCEPT !.handler_pc = "deduct_loan"])

\* lines 490-508: save_user_message, increment_user_message_count and
\* send_chat_action returned, or one of them raised
AfterSaveUserMessage(t, outcome) ==
    IF outcome = "raises" THEN [t EXCEPT !.handler_pc = "done"]
    ELSE [t EXCEPT !.handler_pc = "generate_ai_response"]

\* an update with a message arrives for the handler
HandleMessage(c) ==
    /\ handler_pc[c] = "idle"
    /\ \E user \in Users, route \in Routes :
          TaskSuspends(c, handle_message([Task(c) EXCEPT !.chat_id = user], route))

GetUserReturns(c) ==
    /\ handler_pc[c] = "get_user_by_chat_id"
    /\ \E outcome \in DbOutcomes : TaskSuspends(c, AfterGetUser(Task(c), outcome))

SaveUserMessageReturns(c) ==
    /\ handler_pc[c] = "save_user_message"
    /\ \E outcome \in DbOutcomes :
          TaskSuspends(c, AfterSaveUserMessage(Task(c), outcome))

\* generate_ai_response (message_service.py 214-250) reaches line 245 and
\* calls ai_service.generate_response
GenerateAIResponse(c) ==
    /\ handler_pc[c] = "generate_ai_response"
    /\ pc[c] = "idle"
    /\ GenerateResponse(c, PlainRequests, {<<Response(200, " Hello there!")>>},
                        InitSucceeds)

\* generate_ai_response (message_service.py 214-265) returns the text
\* generate_response returned, or the apology of its except clause for what
\* generate_response raised or for a profile or history read that raised
\* (lines 229-232)
GeneratedText(c) ==
    IF pc[c] = "done" /\ result[c].kind = "success" THEN "ai_response" ELSE "apology"

\* handlers.py 508-540: the text is personalised, saved and sent; if one of
\* these raises, the except clause sends the fallback message
AfterGenerateAIResponse(text, outcome) ==
    IF outcome = "raises" THEN "fallback_error" ELSE text

\* generate_ai_response returns to the handler, which replies and returns
HandlerReplies(c) ==
    /\ handler_pc[c] = "generate_ai_response"
    /\ pc[c] \in {"idle", "done"}
    /\ handler_pc' = [handler_pc EXCEPT ![c] = "done"]
    /\ \E outcome \in DbOutcomes :
          reply' = [reply EXCEPT ![c] = AfterGenerateAIResponse(GeneratedText(c), outcome)]
    /\ UNCHANGED <<service, now, close_pc, calls, send_times, sanitizer, estimator,
                   limiter, profiles, gates, ledger>>

\* two messages handled concurrently after the setup of bot/main.py (init_redis
\* at line 93 has connected Redis), every row in user_profile
Messages == {1, 2}
ProfileRows == {NoProfile, Profile(FALSE, 1), Profile(TRUE, 0), Profile(TRUE, 1)}
InitHandler ==
    /\ Constructed({1}, {TRUE})
    /\ SanitizerIdle
    /\ EstimatorIdle
    /\ redis = "Redis"
    /\ NoLimiterCall
    /\ NoMessage
    /\ profiles \in [Users -> ProfileRows]
    /\ LedgerIdle
NextHandler ==
    \/ \E c \in Messages :
        \/ HandleMessage(c)
        \/ GetReplies(c)
        \/ SetexReplies(c)
        \/ TtlReplies(c)
        \/ GetUserReturns(c)
        \/ SelectReturns(c)
        \/ CommitReturns(c)
        \/ SaveUserMessageReturns(c)
        \/ GenerateAIResponse(c)
        \/ HandlerReplies(c)
        \/ AcquireSlot(c)
        \/ WakeFromPacing(c)
        \/ ReceiveResponse(c)
    \/ RedisSecond
    \/ Tick
SpecHandler == InitHandler /\ [][NextHandler]_vars

\* ------------------------------------------------- context window: claims
Suffixes(h) == {SubSeq(h, i, Len(h)) : i \in 1..(Len(h) + 1)}
Built(c) == payload[c] # NoPayload
SentAsMessages(c) == chat_completions

\* the token count the variant in use charges a history turn
TurnTokens(c, turn) ==
    IF SentAsMessages(c) THEN count_tokens(turn.content)
    ELSE count_tokens(ChatTemplate(turn.role, turn.content))
TurnsTokens(c, turns) == SumSeq([i \in 1..Len(turns) |-> TurnTokens(c, turns[i])])

\* the payload's history is exactly these turns, in this order
SelectionIs(c, turns) ==
    IF SentAsMessages(c) THEN payload[c].history = turns
    ELSE payload[c].history =
            [i \in 1..Len(turns) |-> ChatTemplate(turns[i].role, turns[i].content)]
\* the token count of the payload's history
SelectedTokens(c) ==
    IF SentAsMessages(c)
    THEN SumSeq([i \in 1..Len(payload[c].history) |->
                    count_tokens(payload[c].history[i].content)])
    ELSE SumSeq([i \in 1..Len(payload[c].history) |->
                    count_tokens(payload[c].history[i])])

Capacity(c) == IF SentAsMessages(c) THEN OpenAIContextTokens ELSE max_context_tokens
\* count(system preamble) and count(new user turn)
SystemTokens(c) ==
    IF SentAsMessages(c)
    THEN EstimateTokens(PersonalizedSystemLen(request[c].pref_len))
    ELSE EstimateTokens(SystemPartLen(request[c].pref_len)
                        - Len(ChatTemplate("system", "")))
NewTurnTokens(c) == count_tokens(request[c].user_message)
\* available_for_history as the claims define it
ClaimAvailable(c) ==
    Capacity(c) - SystemTokens(c) - NewTurnTokens(c) - reserved_tokens
\* available_tokens as the variant in use computes it (lines 189 and 335)
CodeAvailable(c) ==
    IF SentAsMessages(c) THEN ClaimAvailable(c)
    ELSE PromptAvailable(request[c].user_message, request[c].pref_len)

\* C1. Budget invariant: whenever available_for_history > 0, the system
\* preamble, the new user turn, the selected history and the reserve
\* (max response tokens + 100) together fit the context window; for the
\* single-string variant this also holds of the counts the code itself uses
\* (the formatted base and the formatted history parts).
C1_BudgetInvariant ==
    \A c \in Callers : Built(c) =>
        /\ ClaimAvailable(c) > 0 =>
              SystemTokens(c) + NewTurnTokens(c) + SelectedTokens(c) + reserved_tokens
                 <= Capacity(c)
        /\ (~SentAsMessages(c) /\ CodeAvailable(c) > 0) =>
              PromptBaseTokens(request[c].user_message, request[c].pref_len)
                 + SelectedTokens(c) + reserved_tokens <= max_context_tokens

\* C1 witness: a positive budget that some but not all of the history fits
C1_Witness ==
    \E c \in Callers :
        /\ Built(c) /\ SentAsMessages(c) /\ ClaimAvailable(c) > 0
        /\ Len(payload[c].history) > 0
        /\ Len(payload[c].history) < Len(FilterChat(request[c].chat_history))
        /\ SelectedTokens(c) = ClaimAvailable(c)

\* C8 as stated. Recency priority: the selected history is a contiguous
\* suffix of the input history, with no turn omitted and none reordered.
C8_SuffixOfInput ==
    \A c \in Callers : Built(c) =>
        \E s \in Suffixes(request[c].chat_history) : SelectionIs(c, s)

\* C8 amended. The selected history is a contiguous suffix, in the original
\* order, of the input history's user and assistant turns (turns of any other
\* role are left out wherever they stand).
C8_SuffixOfChatTurns ==
    \A c \in Callers : Built(c) =>
        \E s \in Suffixes(FilterChat(request[c].chat_history)) : SelectionIs(c, s)

\* C8 witness: two turns selected around a system turn of the input
C8_Witness ==
    \E c \in Callers :
        LET h == request[c].chat_history IN
        /\ Built(c) /\ Len(h) = 3 /\ h[2].role = "system"
        /\ h[1] # h[3]
        /\ Len(payload[c].history) = 2

\* the longest suffix of h that fits the budget (none fits: the empty one)
LongestFitting(c, h, available) ==
    LET fitting == {s \in Suffixes(h) : TurnsTokens(c, s) <= available}
    IN  IF fitting = {} THEN <<>>
        ELSE CHOOSE s \in fitting : \A t \in fitting : Len(t) <= Len(s)

\* C9 as stated. Stop at first overflow: the selection is the longest suffix
\* of the history whose summed token count is <= available_for_history.
C9_LongestSuffixOfInput ==
    \A c \in Callers : Built(c) =>
        SelectionIs(c, LongestFitting(c, request[c].chat_history, CodeAvailable(c)))

\* C9 amended. Whenever available_for_history > 0, the selection is the
\* longest suffix of the history's user and assistant turns whose summed
\* token count is <= available_for_history: the walk stops at the first such
\* turn that overflows and takes no older turn, even one that would fit.
C9_LongestSuffixOfChatTurns ==
    \A c \in Callers : (Built(c) /\ CodeAvailable(c) > 0) =>
        SelectionIs(c, LongestFitting(c, FilterChat(request[c].chat_history),
                                      CodeAvailable(c)))

\* C9 witness: the walk stopped at a turn that overflows although the turn
\* before it would have fitted what was left
C9_Witness ==
    \E c \in Callers :
        LET h == request[c].chat_history IN
        /\ Built(c) /\ SentAsMessages(c) /\ CodeAvailable(c) > 0
        /\ Len(h) = 3 /\ FilterChat(h) = h
        /\ Len(payload[c].history) = 1
        /\ TurnTokens(c, h[3]) + TurnTokens(c, h[2]) > CodeAvailable(c)
        /\ TurnTokens(c, h[3]) + TurnTokens(c, h[1]) <= CodeAvailable(c)

\* the request's most recent turn alone is larger than the budget
NewestOverflows(c, h) ==
    /\ h # <<>>
    /\ TurnTokens(c, h[Len(h)]) > CodeAvailable(c)
Started(c) == pc[c] # "idle"

\* C10 as stated. Degradation, not failure: when the history's most recent
\* turn alone exceeds available_for_history, the selected history is empty
\* and the request proceeds to dispatch without any error being raised.
C10_NewestOverflowsInput ==
    \A c \in Callers :
        (Started(c) /\ NewestOverflows(c, request[c].chat_history)) =>
            /\ result[c].kind \in {"none", "success"}
            /\ Built(c) => payload[c].history = <<>>

\* C10 amended. When available_for_history > 0 and the most recent user or
\* assistant turn of the history alone exceeds it, the selected history is
\* empty (no content is cut to fit), no error is raised and the request is
\* dispatched once.
C10_NewestChatTurnOverflows ==
    \A c \in Callers :
        (/\ Started(c) /\ CodeAvailable(c) > 0
         /\ NewestOverflows(c, FilterChat(request[c].chat_history))) =>
            /\ result[c].kind \in {"none", "success"}
            /\ Built(c) => payload[c].history = <<>>
            /\ pc[c] = "done" => dispatches[c] = 1 /\ result[c].kind = "success"

\* C10 witness: a finished call whose newest turn was larger than a positive
\* budget while an older turn would have fitted
C10_Witness ==
    \E c \in Callers :
        LET h == request[c].chat_history IN
        /\ pc[c] = "done" /\ CodeAvailable(c) > 0
        /\ Len(h) = 2 /\ FilterChat(h) = h
        /\ TurnTokens(c, h[2]) > CodeAvailable(c)
        /\ TurnTokens(c, h[1]) <= CodeAvailable(c)
        /\ result[c].kind = "success"

\* ------------------------------------------------------ retry policy: claims
\* every answer of the endpoint to caller c's call is a network-level error
OnlyNetworkErrors(c) ==
    /\ endpoint[c] # <<>>
    /\ \A i \in 1..Len(endpoint[c]) : endpoint[c][i].error \in NetworkErrors
\* the endpoint fails the first k dispatches of c's call at the network level
\* and answers 200 to the next
RecoversAfter(c, k) ==
    /\ Len(endpoint[c]) = k + 1
    /\ \A i \in 1..k : endpoint[c][i].error \in NetworkErrors
    /\ endpoint[c][k + 1] = Response(200, " Hello there!")
\* the latest dispatch of c's call was answered 500
Answered500(c) ==
    /\ endpoint[c] # <<>>
    /\ dispatches[c] >= 1
    /\ pc[c] # "post"
    /\ Replies(endpoint[c], dispatches[c]) = {Response(500, "")}

\* C2. Retry bound: a call whose every dispatch fails with a network-level
\* error is retried exactly max_retries times (max_retries + 1 dispatches)
\* and only then fails with ModelUnavailable.
C2_RetryBound ==
    \A c \in Callers : (pc[c] = "done" /\ dispatches[c] >= 1 /\ OnlyNetworkErrors(c)) =>
        /\ result[c].kind = "ModelUnavailableError"
        /\ dispatches[c] = hf_max_retries + 1

\* C3. No retry on response: a call whose dispatch is answered HTTP 500 fails
\* at once with the generic upstream failure (AIServiceError itself, none of
\* its subclasses), after exactly one dispatch and no retry.
C3_NoRetryOnResponse ==
    \A c \in Callers : Answered500(c) =>
        /\ pc[c] = "done"
        /\ result[c].kind = "AIServiceError"
        /\ dispatches[c] = 1
        /\ attempt_number[c] = 1

\* C3 witness: a call that ended on a 500 answer to its only dispatch
C3_Witness ==
    \E c \in Callers :
        /\ pc[c] = "done" /\ endpoint[c] = <<Response(500, "")>>
        /\ dispatches[c] = 1 /\ result[c].kind = "AIServiceError"

\* C4. Recovery by retry: when the first k dispatches of a call fail at the
\* network level (k within the retry budget) and the next is answered 200,
\* the call returns that response's text after exactly k + 1 dispatches.
C4_RecoveryByRetry ==
    \A c \in Callers : \A k \in 0..(MaxScript - 1) :
        (pc[c] = "done" /\ k <= hf_max_retries /\ RecoversAfter(c, k)) =>
            /\ result[c] = [kind |-> "success", text |-> "Hello there!"]
            /\ dispatches[c] = k + 1

\* ------------------------------------------------------- rate gate: claims
\* the calls whose request is in flight to the endpoint
InFlight == {c \in Callers : pc[c] = "post"}
\* the calls that hold a slot of semaphore s
Holders(s) == {c \in Callers : slot[c] = s /\ pc[c] \in {"pacing", "post"}}
Quiescent == \A c \in Callers : pc[c] \in {"idle", "done"}

\* C5. Gate bound: across any sequence of initialize(), close() and
\* generate_response() calls, at most hf_max_rps requests are in flight.
C5_GateBound == Cardinality(InFlight) <= hf_max_rps

\* C6. Pacing: the recorded send times of two successive dispatches differ by
\* at least min_interval = 1 / hf_max_rps.
C6_Pacing ==
    Len(send_times) = 2 => send_times[2] - send_times[1] >= min_interval

\* C7. Slot release: a call holds one slot of its semaphore from the entry of
\* the async with through the pacing sleep and the network call, and gives it
\* back when the network call ends, whatever its outcome; when no call is in
\* progress every slot of every semaphore is free.
C7_SlotRelease ==
    /\ \A s \in 1..Len(semaphores) :
          semaphores[s] + Cardinality(Holders(s)) = hf_max_rps
    /\ \A c \in Callers : pc[c] \in {"idle", "done"} => slot[c] = 0
    /\ Quiescent => \A s \in 1..Len(semaphores) : semaphores[s] = hf_max_rps

\* C7 witness: nothing in progress after a call that timed out and a call that
\* was answered an error status, each having sent its request
C7_Witness ==
    /\ Quiescent
    /\ \E c \in Callers : dispatches[c] = 1 /\ result[c].kind = "ModelUnavailableError"
    /\ \E c \in Callers : dispatches[c] = 1 /\ result[c].kind = "AIServiceError"
    /\ \A s \in 1..Len(semaphores) : semaphores[s] = hf_max_rps

\* ------------------------------------------------- token budget: claims
\* the token count of the single-string prompt of system preamble and new
\* turn alone, which generate_response compares with max_context_tokens
BarePromptTokens(c) ==
    PromptTotalTokens(request[c].user_message, <<>>, request[c].pref_len)
\* the token count of the request the variant in use assembles from the
\* system preamble and the new turn alone
BareRequestTokens(c) ==
    IF SentAsMessages(c) THEN SystemTokens(c) + NewTurnTokens(c)
    ELSE BarePromptTokens(c)
AllSlotsFree == \A s \in 1..Len(semaphores) : semaphores[s] = hf_max_rps

\* C11 as stated. Graceful degradation: whenever available_for_history <= 0
\* the request is sent with no history turns and the call does not fail
\* because of the token budget.
C11_NoBudgetNoFailure ==
    \A c \in Callers : (Started(c) /\ CodeAvailable(c) <= 0) =>
        /\ Built(c) => payload[c].history = <<>>
        /\ result[c].kind # "TokenLimitExceededError"

\* C11 amended. Whenever available_for_history <= 0 no history turn is
\* selected, and the call fails because of the token budget exactly when the
\* single-string prompt of system preamble and new turn alone counts more
\* than max_context_tokens; otherwise the request is sent with no history.
C11_NoBudgetNoHistory ==
    \A c \in Callers : (Started(c) /\ CodeAvailable(c) <= 0) =>
        /\ Built(c) => payload[c].history = <<>>
        /\ result[c].kind = "TokenLimitExceededError"
              <=> BarePromptTokens(c) > max_context_tokens
        /\ BarePromptTokens(c) <= max_context_tokens =>
              /\ result[c].kind \in {"none", "success"}
              /\ dispatches[c] = 1
              /\ Built(c)

\* C11 witness: a call that succeeded with a history that had no budget
C11_Witness ==
    \E c \in Callers :
        /\ pc[c] = "done" /\ CodeAvailable(c) <= 0
        /\ FilterChat(request[c].chat_history) # <<>>
        /\ Built(c) /\ payload[c].history = <<>>
        /\ result[c].kind = "success"

\* C12. TokenBudgetExceeded: when the request assembled from the system
\* preamble and the new turn alone exceeds the context window, the call
\* fails with TokenLimitExceededError without taking a gate slot or
\* dispatching, and is not retried.
C12_TokenBudgetExceeded ==
    \A c \in Callers :
        (Started(c) /\ BareRequestTokens(c) > Capacity(c)) =>
            /\ pc[c] = "done"
            /\ result[c].kind = "TokenLimitExceededError"
            /\ dispatches[c] = 0 /\ attempt_number[c] = 0
            /\ slot[c] = 0 /\ AllSlotsFree

\* ------------------------------------------- response classification: claims
\* the only dispatch of c's call so far was answered with one of `statuses`
Answered(c, statuses) ==
    /\ endpoint[c] # <<>>
    /\ dispatches[c] >= 1
    /\ pc[c] # "post"
    /\ \E st \in statuses : Replies(endpoint[c], dispatches[c]) = {Response(st, "")}

\* C13. RateLimited: a call whose dispatch is answered HTTP 429 fails with
\* RateLimitExceededError after exactly one dispatch and is never retried.
C13_RateLimited ==
    \A c \in Callers : Answered(c, {429}) =>
        /\ pc[c] = "done"
        /\ result[c].kind = "RateLimitExceededError"
        /\ dispatches[c] = 1

\* C14. ModelUnavailable on 503: a call whose dispatch is answered HTTP 503
\* fails with ModelUnavailableError.
C14_ModelUnavailableOn503 ==
    \A c \in Callers : Answered(c, {503}) =>
        /\ pc[c] = "done"
        /\ result[c].kind = "ModelUnavailableError"

\* the statuses with which the backend rejects the payload, and the other
\* statuses that are neither 2xx nor 429 nor 503
RejectedStatuses == {400, 401, 403, 404}
OtherStatuses == Statuses \ ({200, 429, 503} \cup RejectedStatuses)
\* the kinds the code gives the other failures of the taxonomy (UpstreamError,
\* RateLimited, ModelUnavailable, TokenBudgetExceeded)
OtherFailureKinds ==
    {"AIServiceError", "RateLimitExceededError", "ModelUnavailableError",
     "TokenLimitExceededError"}

\* C15 as stated. A response that rejects the payload (400, 401, 403, 404)
\* surfaces as InvalidRequest, a failure kind of its own, and any other
\* non-2xx response but 429 and 503 as UpstreamError (AIServiceError); each
\* after one dispatch, not retried.
C15_InvalidRequestOrUpstream ==
    \A c \in Callers :
        /\ Answered(c, RejectedStatuses) =>
              /\ pc[c] = "done" /\ dispatches[c] = 1
              /\ result[c].kind \notin OtherFailureKinds \cup {"success"}
        /\ Answered(c, OtherStatuses) =>
              /\ pc[c] = "done" /\ dispatches[c] = 1
              /\ result[c].kind = "AIServiceError"

\* C15 amended. A response of status 400, 401, 403 or 404 and any other
\* non-2xx response but 429 and 503 all surface as the one generic failure
\* AIServiceError, after exactly one dispatch and without a retry.
C15_GenericFailure ==
    \A c \in Callers : Answered(c, RejectedStatuses \cup OtherStatuses) =>
        /\ pc[c] = "done"
        /\ result[c].kind = "AIServiceError"
        /\ dispatches[c] = 1
        /\ attempt_number[c] = 1

\* C15 witness: a call that ended on a 502 answer to its only dispatch
C15_Witness ==
    \E c \in Callers :
        /\ pc[c] = "done" /\ endpoint[c] = <<Response(502, "")>>
        /\ dispatches[c] = 1 /\ result[c].kind = "AIServiceError"

\* ------------------------------------------------------------ typed result
\* the failure kinds of the code: AIServiceError and its subclasses
\* (lines 26-43)
Taxonomy ==
    {"AIServiceError", "TokenLimitExceededError", "ModelUnavailableError",
     "RateLimitExceededError"}

\* C16. A call of generate_response that has ended has either returned a
\* text, which is not empty, or raised AIServiceError or one of its
\* subclasses, whichever stage failed: initialization, the client check, the
\* dispatch, the reading of the response.
C16_TypedResult ==
    \A c \in Callers : pc[c] = "done" =>
        \/ result[c].kind = "success" /\ result[c].text # ""
        \/ result[c].kind \in Taxonomy /\ result[c].text = ""

\* C16 witness: a call that ended in initialize(), before any attempt
C16_Witness ==
    \E c \in Callers :
        /\ pc[c] = "done" /\ ~_initialized
        /\ attempt_number[c] = 0 /\ dispatches[c] = 0
        /\ result[c].kind = "AIServiceError"

\* -------------------------------------------------------- sanitizer: claims
\* sub in text
Contains(text, sub) == Occurrences(text, sub) # {}
\* text.endswith(suffix)
EndsWith(text, suffix) ==
    Len(text) >= Len(suffix)
    /\ SubSeq(text, Len(text) - Len(suffix) + 1, Len(text)) = suffix
\* the text the first call was given needed a cut
OverLimit == Len(Untruncated(response)) > MaxResponseChars

\* C17. Cleaning a cleaned text changes nothing:
\* _clean_response(_clean_response(x)) = _clean_response(x).
C17_Idempotent == Len(cleaned) >= 2 => cleaned[2] = cleaned[1]

\* C18. What _clean_response returns contains neither <|im_start|> nor
\* <|im_end|>.
C18_NoDelimiters ==
    Len(cleaned) >= 1 => \A d \in Delimiters : ~Contains(cleaned[1], d)

\* C19. _clean_response never returns the empty text: a text that cleans to
\* nothing is replaced by the placeholder.
C19_NeverEmpty == \A i \in 1..Len(cleaned) : cleaned[i] # ""

\* C19 witness: a text of delimiters and whitespace only, answered with the
\* placeholder
C19_Witness ==
    /\ response = "<|im_end|>\n"
    /\ Len(cleaned) >= 1
    /\ cleaned[1] = EmptyPlaceholder

\* C20. What _clean_response returns has at most 2000 characters, and a text
\* that was cut has exactly 2000: its first 1997 characters, then "...".
C20_LengthBound ==
    Len(cleaned) >= 1 =>
        /\ Len(cleaned[1]) <= MaxResponseChars
        /\ OverLimit =>
              /\ Len(cleaned[1]) = MaxResponseChars
              /\ EndsWith(cleaned[1], "...")
              /\ SubSeq(cleaned[1], 1, MaxResponseChars - 3)
                    = SubSeq(Untruncated(response), 1, MaxResponseChars - 3)

\* C20 witness: a text one character over the limit, cut
C20_Witness ==
    /\ Len(response) = MaxResponseChars + 1
    /\ OverLimit
    /\ Len(cleaned) >= 1
    /\ EndsWith(cleaned[1], "A...")

\* ------------------------------------------------- empty generation: claims
\* caller c's only dispatch was answered 200 with a generated text of texts
Generated(c, texts) ==
    /\ pc[c] = "done"
    /\ dispatches[c] = 1
    /\ \E text \in texts : endpoint[c] = <<Response(200, text)>>
EmptyTexts == {text \in GeneratedTexts : Strip(text) = ""}
\* texts that are not empty but of which cleaning leaves nothing
HollowTexts ==
    {text \in GeneratedTexts :
        Strip(text) # "" /\ Untruncated(Strip(text)) = EmptyPlaceholder}

\* C21 as stated. A 200 response whose generated text is empty ends the call
\* in a success whose text is the placeholder, not in a failure.
C21_EmptyBecomesPlaceholder ==
    \A c \in Callers : Generated(c, EmptyTexts) =>
        /\ result[c].kind = "success"
        /\ result[c].text = EmptyPlaceholder

\* C21 amended. The placeholder success is what a 200 response gets whose
\* generated text is not empty but cleans to nothing (delimiters only); a
\* generated text that is empty never ends the call in a success.
C21_HollowBecomesPlaceholder ==
    \A c \in Callers :
        /\ Generated(c, HollowTexts) =>
              /\ result[c].kind = "success"
              /\ result[c].text = EmptyPlaceholder
        /\ Generated(c, EmptyTexts) => result[c].kind # "success"

\* C21 witness: a delimiter-only text answered with the placeholder
C21_Witness ==
    \E c \in Callers :
        /\ Generated(c, {"<|im_end|>"})
        /\ result[c] = [kind |-> "success", text |-> EmptyPlaceholder]

\* C22. A 200 response whose generated text is empty after stripping
\* whitespace ends the call in AIServiceError, no text returned.
C22_EmptyResponseIsError ==
    \A c \in Callers : Generated(c, EmptyTexts) =>
        result[c] = [kind |-> "AIServiceError", text |-> ""]

\* C22 witness: a whitespace-only text, the call failed
C22_Witness ==
    \E c \in Callers :
        /\ Generated(c, {" \n"})
        /\ result[c].kind = "AIServiceError"

\* -------------------------------------------------------- estimator: claims
\* count_tokens has been called
Counted == tokens # NotCounted

\* C23 as stated. With no tokenizer loaded, count_tokens(text) is
\* ceil(length(text) / 4).
C23_CeilEstimate ==
    Counted /\ tokenizer = "None" =>
        /\ ~tokens.raised
        /\ 4 * tokens.value >= Len(counted_text)
        /\ 4 * (tokens.value - 1) < Len(counted_text)

\* C23 amended. With no tokenizer loaded, count_tokens(text) is
\* floor(length(text) / 4).
C23_FloorEstimate ==
    Counted /\ tokenizer = "None" =>
        /\ ~tokens.raised
        /\ 4 * tokens.value <= Len(counted_text)
        /\ 4 * (tokens.value + 1) > Len(counted_text)

\* C23 witness: a text of 7 characters counted as one token
C23_Witness ==
    /\ tokenizer = "None"
    /\ counted_text = "Hello w"
    /\ tokens = Returned(1)

\* C24. When the loaded tokenizer's encode fails, count_tokens does not raise
\* and returns the character estimate of the same text, which is not
\* negative.
C24_NeverRaises ==
    Counted =>
        /\ ~tokens.raised
        /\ tokens.value >= 0
        /\ tokenizer = "loaded" /\ encoded.raised =>
              tokens.value = EstimateTokens(Len(counted_text))

\* C24 witness: a failed encode, the estimate returned
C24_Witness ==
    /\ tokenizer = "loaded"
    /\ encoded = EncodeRaises
    /\ counted_text = "Hello wor"
    /\ tokens = Returned(2)

\* ------------------------------------------------------- wire shape: claims
\* the last n user and assistant turns of caller c's history, oldest first
NewestChatTurns(c, n) ==
    LET chat == FilterChat(request[c].chat_history)
    IN  SubSeq(chat, Len(chat) - n + 1, Len(chat))
\* the segments of turns, each followed by a line break
RECURSIVE Segments(_)
Segments(turns) ==
    IF turns = <<>> THEN ""
    ELSE ChatTemplate(Head(turns).role, Head(turns).content) \o "\n"
         \o Segments(Tail(turns))

\* C25. The messages list of the structured-turns variant is one system turn,
\* then the selected history turns in chronological order, then the new user
\* turn: as many turns as were selected plus 2, no second system turn, and
\* never an assistant turn last.
C25_MessagesShape ==
    \A c \in Callers : Built(c) /\ SentAsMessages(c) =>
        LET messages == payload[c].messages
            n == Len(messages) - 2
        IN  /\ n >= 0
            /\ n = Len(payload[c].history)
            /\ messages[1] = SystemTurn(request[c].pref_len)
            /\ \A i \in 2..Len(messages) : IsChatRole(messages[i].role)
            /\ SubSeq(messages, 2, n + 1) = NewestChatTurns(c, n)
            /\ messages[n + 2] = [role |-> "user", content |-> request[c].user_message]
            /\ messages[Len(messages)].role # "assistant"

\* C25 witness: a messages list with two history turns, the newer an
\* assistant turn
C25_Witness ==
    \E c \in Callers :
        /\ Built(c) /\ SentAsMessages(c)
        /\ Len(payload[c].messages) = 4
        /\ payload[c].messages[2].role = "user"
        /\ payload[c].messages[3].role = "assistant"

\* C26. The prompt of build_chat_prompt is the system segment, then the
\* segments of the selected history turns in chronological order, then the
\* segment of the new user turn, and it ends with the open assistant marker,
\* nothing after it.
C26_PromptShape ==
    \A c \in Callers : Started(c) =>
        LET final_prompt == prompt[c].final_prompt
            n == Len(prompt[c].used_history)
        IN  /\ final_prompt.system_part_len = SystemPartLen(request[c].pref_len)
            /\ final_prompt.after_system =
                  "\n\n" \o Segments(NewestChatTurns(c, n))
                  \o ChatTemplate("user", request[c].user_message) \o "\n"
                  \o "<|im_start|>assistant\n"
            /\ EndsWith(final_prompt.after_system, "<|im_start|>assistant\n")
            /\ ~EndsWith(final_prompt.after_system, "<|im_end|>")

\* C26 witness: a prompt with two history segments, the older a user turn
C26_Witness ==
    \E c \in Callers :
        /\ Started(c)
        /\ Len(prompt[c].used_history) = 2
        /\ StartsWith(prompt[c].used_history[1], "<|im_start|>user\n")
        /\ StartsWith(prompt[c].used_history[2], "<|im_start|>assistant\n")

\* ------------------------------------------------------- prompt size: claims
\* C27. Whatever the history, the token count build_chat_prompt returns for
\* the prompt it assembled is at most max_context_tokens, provided the system
\* prompt and the current message alone fit.
C27_PromptWithinContext ==
    \A c \in Callers :
        Started(c) /\ BarePromptTokens(c) <= max_context_tokens =>
            prompt[c].total_tokens <= max_context_tokens

\* -------------------------------------------------- caller-side gates: claims
\* generate_response was invoked for message c
Invoked(c) == pc[c] # "idle"
AllGatesPassed == <<"rate: not blocked", "age: verified", "loan: deducted">>

\* C28. For every inbound message, generate_response is invoked only after
\* the rate gate reported the chat not blocked, then the user was found
\* age-verified, then one loan was deducted, in this order; a message for
\* which one of these checks failed never gets a generation request.
C28_GenerationAfterGates ==
    \A c \in Messages :
        /\ Invoked(c) => gates[c] = AllGatesPassed
        /\ gates[c] # <<>> /\ gates[c] # SubSeq(AllGatesPassed, 1, Len(gates[c]))
              => ~Invoked(c)

\* C28 witness: two messages of one chat, one answered by the model, the
\* other past the rate gate and the age check and turned away for lack of loans
C28_Witness ==
    \E c \in Messages, d \in Messages :
        /\ chat_id[c] = chat_id[d]
        /\ pc[c] = "done" /\ result[c].kind = "success"
        /\ handler_pc[d] = "done"
        /\ gates[d] = <<"rate: not blocked", "age: verified", "loan: not deducted">>

\* ------------------------------------------------------ rate limiter: claims
\* C29. For any chat and any interleaving of is_rate_limited calls for it, at
\* most one call in a window of rate_limit_per_user_sec seconds sets the key
\* and returns False: two such admissions of one chat are at least a window
\* apart.
C29_OneAdmissionPerWindow ==
    \A user \in Users :
        Len(admitted[user]) = 2 =>
            admitted[user][2] - admitted[user][1] >= rate_limit_per_user_sec

\* C30. The rate limiter fails open: a call during which Redis was not
\* connected or a Redis operation raised returns False from is_rate_limited
\* and 0 from get_remaining_time; neither method raises, and
\* get_remaining_time never returns a negative number.
C30_FailsOpen ==
    \A c \in LimiterTasks :
        limiter_pc[c] = "returned" =>
            /\ ~answer[c].raised
            /\ answer[c].remaining >= 0
            /\ (answer[c].redis_failed =>
                    ~answer[c].limited /\ answer[c].remaining = 0)

\* C30 witness: Redis failed under an is_rate_limited call for a chat whose
\* key is alive, and under a get_remaining_time call for the same chat
C30_Witness ==
    \E c \in LimiterTasks, d \in LimiterTasks :
        /\ redis = "Redis"
        /\ chat_id[c] \in Users /\ chat_id[c] = chat_id[d]
        /\ expires[chat_id[c]] > redis_time
        /\ limiter_pc[c] = "returned" /\ limiter_pc[d] = "returned"
        /\ answer[c].op = "is_rate_limited" /\ answer[c].redis_failed
        /\ answer[d].op = "get_remaining_time" /\ answer[d].redis_failed

\* ------------------------------------------------------------ ledger: claims
Balance(user) == profiles[user].loan_balance
\* the step with which the deduct_loan of task c returns
DeductLoanEnds(c) ==
    db_op[c].name = "deduct_loan" /\ db_pc[c] # "returned" /\ db_pc'[c] = "returned"
OthersUntouched(user) == \A other \in Users \ {user} : profiles'[other] = profiles[other]

\* C31. After any sequence of deduct_loan and add_loans calls with
\* non-negative amounts the balance of a user is never negative; deduct_loan
\* on a zero balance returns False and leaves the balance unchanged, and on
\* any other balance returns True and decreases the balance by exactly 1.
C31_DeductByBalance ==
    /\ [](\A user \in Users : Balance(user) >= 0)
    /\ [][\A c \in Callers :
            DeductLoanEnds(c) /\ profiles[chat_id[c]].exists =>
                IF Balance(chat_id[c]) = 0
                THEN db_op'[c].returned = "False" /\ profiles' = profiles
                ELSE /\ db_op'[c].returned = "True"
                     /\ Balance(chat_id[c])' = Balance(chat_id[c]) - 1]_vars

\* C31 as amended. The balance is never negative; deduct_loan on a zero
\* balance, on a chat with no row, or when a database call raises under it
\* returns False and leaves every balance unchanged; otherwise it returns
\* True and decreases the balance of the chat by exactly 1, and no other.
C31_DeductByBalanceUnlessFailed ==
    /\ [](\A user \in Users : Balance(user) >= 0)
    /\ [][\A c \in Callers :
            DeductLoanEnds(c) =>
                IF \/ ~profiles[chat_id[c]].exists
                   \/ Balance(chat_id[c]) = 0
                   \/ db_op'[c].db_failed
                THEN db_op'[c].returned = "False" /\ profiles' = profiles
                ELSE /\ db_op'[c].returned = "True"
                     /\ Balance(chat_id[c])' = Balance(chat_id[c]) - 1
                     /\ OthersUntouched(chat_id[c])]_vars

\* C31 witness: one chat has spent two loans, and deduct_loan has just
\* returned False for a chat whose balance is zero
C31_Witness ==
    \E c \in Callers, user \in Users :
        /\ deductions[user] = 2 /\ Balance(user) = opening[user] - 2
        /\ chat_id[c] \in Users \ {user}
        /\ db_pc[c] = "returned" /\ db_op[c].name = "deduct_loan"
        /\ db_op[c].returned = "False" /\ ~db_op[c].db_failed
        /\ profiles[chat_id[c]].exists /\ Balance(chat_id[c]) = 0

\* the step with which the replenish_daily_loans of task c returns its stats
ReplenishEnds(c) ==
    /\ db_op[c].name = "replenish_daily_loans"
    /\ db_pc[c] # "returned" /\ db_pc'[c] = "returned"
    /\ db_op'[c].returned = "stats"

\* C33. A run of replenish_daily_loans sets the balance of every user below
\* free_daily_loans to exactly free_daily_loans and leaves the balance of
\* every other user unchanged, so that afterwards every user has at least
\* free_daily_loans.
C33_ReplenishedToMinimum ==
    [][\A c \in Callers :
        ReplenishEnds(c) =>
            \A user \in Users :
                profiles[user].exists =>
                    /\ Balance(user)' = IF Balance(user) < free_daily_loans
                                        THEN free_daily_loans ELSE Balance(user)
                    /\ Balance(user)' >= free_daily_loans]_vars

\* C33 witness: a run has returned; a user that began with nothing has
\* exactly free_daily_loans and another that began above keeps its balance
C33_Witness ==
    \E c \in Callers, user \in Users, other \in Users :
        /\ db_pc[c] = "returned" /\ db_op[c].name = "replenish_daily_loans"
        /\ db_op[c].returned = "stats"
        /\ opening[user] = 0 /\ Balance(user) = free_daily_loans
        /\ opening[other] > free_daily_loans /\ Balance(other) = opening[other]

\* ----------------------------------------------------------- backoff: claims
\* the wait, in ticks, caller c is in after its last failed attempt
Wait(c) == IF pc[c] = "backoff" THEN wake_at[c] - now ELSE 0
\* min(10 s, 1 s * 2^(k-1)), in seconds
ClaimedWait(k) == IF 2^(k - 1) < 10 THEN 2^(k - 1) ELSE 10

InProgress(c) == pc[c] \notin {"idle", "done"}
\* what a finished call ended with: the text, or an error of the taxonomy
Completed(c) ==
    /\ pc[c] = "done"
    /\ result[c].kind = "success" \/ result[c].kind \in Taxonomy

\* C35. Under a fair loop and an endpoint that answers every request or lets
\* it time out, every call of generate_response completes with a text or a
\* typed failure; the slots taken from a semaphore are all held by calls
\* that are pacing or in flight, none by a call waiting at a gate; and no
\* call dispatches more often than the retry budget allows.
C35_Termination ==
    /\ \A c \in Callers : InProgress(c) ~> Completed(c)
    /\ [](\A c \in Callers :
            /\ dispatches[c] <= MaxAttempts
            /\ pc[c] = "done" => Completed(c)
            /\ pc[c] = "gate" =>
                  /\ slot[c] \in 1..Len(semaphores)
                  /\ hf_max_rps - semaphores[slot[c]]
                        = Cardinality(Holders(slot[c]))
                  /\ c \notin Holders(slot[c]))

\* C35 witness: with a gate of one slot, one call has completed with the
\* text after its only dispatch and given its slot back, and the call that
\* waited at the gate meanwhile is about to be resumed
C35_Witness ==
    \E c \in Callers, d \in Callers :
        /\ hf_max_rps = 1
        /\ Completed(c) /\ result[c].kind = "success" /\ dispatches[c] = 1
        /\ pc[d] = "gate" /\ dispatches[d] = 0
        /\ semaphores[slot[d]] = 1

\* ------------------------------------------------- concurrent loans: claims
\* a deduct_loan for the user is between its call and its return
Deducting(user) ==
    \E c \in Callers :
        /\ chat_id[c] = user /\ db_op[c].name = "deduct_loan"
        /\ db_pc[c] \in {"select", "commit"}

\* C36. For any interleaving of concurrent deduct_loan executions on a user
\* that starts with n loans, at most n of them return True, and when they
\* have all returned the balance is n minus the number that returned True.
C36_NoDoubleSpending ==
    \A user \in Users :
        /\ deductions[user] <= opening[user]
        /\ ~Deducting(user) => Balance(user) = opening[user] - deductions[user]

\* ------------------------------------------------------- payments: claims
\* C37. For each payment, tokens_to_receive is added to the balance of its
\* user at most once, whatever the number and the interleaving of the
\* success webhooks and status checks processed for it.
C37_CreditedAtMostOnce == \A p \in PaymentIds : credits[p] <= 1

\* --------------------------------------------------- loans and replies: claims
\* handle_message spent a loan for message c
Deducted(c) == \E i \in 1..Len(gates[c]) : gates[c][i] = "loan: deducted"

\* C32. One loan per assistant reply: for every message handle_message has
\* finished with, a loan was deducted exactly if a reply generated by the
\* model was delivered; a message turned away by the rate limit, the age gate
\* or an empty balance deducted nothing.
C32_OneLoanPerReply ==
    \A c \in Messages :
        handler_pc[c] = "done" => (Deducted(c) <=> reply[c] = "ai_response")

====
